---- MODULE Spec2Model ----
(***************************************************************************)
(* DualityTest: the facade over a browser engine (web) and a remote mobile *)
(* automation session (android, ios), modelled as a state machine.         *)
(*                                                                         *)
(* State: the facade's session fields (driver, browser, context, page),    *)
(* the remote sessions that are open, one MobileLocator (the element       *)
(* handle the script holds), and the facade operation that is running,     *)
(* with its loop counter and what it has done so far.  Every remote call's *)
(* outcome (an element found or not, displayed or not, a fault) is an      *)
(* input chosen when the call is made.                                     *)
(***************************************************************************)
EXTENDS Integers, Sequences, FiniteSets, TLC

\* ------------------------------------------------------------------ bounds
MaxMatches == 5      \* largest match set driver.$$ returns
MaxAttempts == 3     \* largest retries / maxAttempts / maxScrolls option
MaxLaunches == 2     \* launch is called at most this many times
MaxCount == 3        \* largest exact / min / max of a toHaveCount expectation
MaxSets == 3         \* setEnv is called at most this many times

\* ------------------------------------------------------------- vocabulary
Platforms == {"web", "android", "ios"}

NoIndex == 99        \* MobileLocator.index = null (no positional index)
NoElement == 0       \* this._element = null
MainElement == 9     \* the element driver.$(strategies[type]) yields
FirstMatch == 10     \* driver.$$ yields elements FirstMatch, FirstMatch+1, ...

\* The three fallback strategies getByPlaceholder builds on android; the
\* element strategy s yields is element s.
PlaceholderStrategies == <<1, 2, 3>>
NoStrategies == <<>>

Indexes == (0 - MaxMatches - 1) .. MaxMatches

\* driver.$$(selector): the match sets the remote session can answer with.
MatchSets == {[p \in 1..n |-> FirstMatch + p - 1] : n \in 0..MaxMatches}

\* What one candidate lookup can do: driver.$ faults; or it yields an element
\* handle whose isDisplayed() faults, or reports an element that does not
\* exist ("none"), is not displayed ("hidden") or is displayed ("shown").
CandOutcomes == {"lookupFault", "displayFault", "none", "hidden", "shown"}

VARIABLES
  platform,   \* this.platform
  driver,     \* this.driver: 0 (null) or the id of the session remote() gave
  browser,    \* this.browser: 0 (null) or an id
  context,    \* this.context: 0 (null) or an id
  page,       \* this.page: 0 (null) or an id
  live,       \* the remote resources that are open: <<kind, id>>
  launches,   \* how many times launch has been called
  closed,     \* close has completed and launch has not been called since
  envs,       \* the environment maps of two facade instances (see NoEnvs)
  other,      \* an operation the script called and has not awaited
  loc,        \* the MobileLocator the script holds
  target,     \* the MobileLocator of tapOnUntilVisible's targetSelector
  op,         \* the facade operation that is running or has just ended
  last        \* what the last direct resolution did (its inputs and calls)

vars ==
  <<platform, driver, browser, context, page, live, launches, closed, envs, other, loc,
    target, op, last>>

\* ---------------------------------------------------------- MobileLocator

\* new MobileLocator(driver, selector, type, fallbackStrategies, index)
MobileLocator(drv, type, fallbackStrategies, index) ==
  [driver |-> drv, type |-> type, fallbackStrategies |-> fallbackStrategies,
   index |-> index, element |-> NoElement, elementCacheValid |-> FALSE]

\* The handle the script holds before any selector-factory call.
NoLocator == MobileLocator(0, "none", NoStrategies, NoIndex)

\* _invalidateCache()
InvalidateCache(h) == [h EXCEPT !.element = NoElement, !.elementCacheValid = FALSE]

\* The inputs of one resolution: what each remote call it may make answers.
\*   cached     the cached element's isDisplayed(): "shown", "hidden", "fault"
\*   allFault   driver.$$ faults;   all: the match set it yields otherwise
\*   cand[s]    fallback strategy s: driver.$ and the element's isDisplayed()
\*   mainFault  driver.$(strategies[type]) faults
ResolveInputs ==
  [cached : {"shown", "hidden", "fault"}, allFault : BOOLEAN, all : MatchSets,
   cand : [1..Len(PlaceholderStrategies) -> CandOutcomes], mainFault : BOOLEAN]

\* A session that is closed, or a null driver, fails every call made on it.
DeadInputs ==
  [cached |-> "fault", allFault |-> TRUE, all |-> <<>>,
   cand |-> [s \in 1..Len(PlaceholderStrategies) |-> "lookupFault"], mainFault |-> TRUE]

\* The result of _getElement(): the handle as it leaves it, the element it
\* returns (NoElement when it throws), the error it throws ("" when none) and
\* the remote calls it made, in order.
Resolved(h, out, err, calls) == [h |-> h, out |-> out, err |-> err, calls |-> calls]

\* MainLookup with a displayed check on the element it looked up, which is
\* stored as valid only if displayed (taken here as not displayed).
MainLookupChecked(h, env, calls) ==
  LET calls2 == Append(calls, <<"$", MainElement>>)
      calls3 == Append(calls2, <<"isDisplayed", MainElement>>)
  IN IF env.mainFault
       THEN Resolved(h, NoElement, "remote", calls2)
       ELSE Resolved([h EXCEPT !.element = MainElement], MainElement, "", calls3)

\* _getElement(), lines 1812-1815: the main strategy.
MainLookup(h, env, calls) ==
  LET calls2 == Append(calls, <<"$", MainElement>>)
  IN IF env.mainFault
       THEN Resolved(h, NoElement, "remote", calls2)
       ELSE Resolved([h EXCEPT !.element = MainElement, !.elementCacheValid = TRUE],
                     MainElement, "", calls2)

\* TryFallback with the displayed check dropped: the first element found wins.
RECURSIVE TryFallbackFirstFound(_, _, _, _)
TryFallbackFirstFound(h, env, k, calls) ==
  IF k > Len(h.fallbackStrategies)
    THEN MainLookup(h, env, calls)
    ELSE LET s == h.fallbackStrategies[k]
             calls2 == Append(calls, <<"$", s>>)
         IN IF env.cand[s] = "lookupFault"
              THEN TryFallbackFirstFound(h, env, k + 1, calls2)
              ELSE Resolved([h EXCEPT !.element = s, !.elementCacheValid = TRUE],
                            s, "", calls2)

\* TryFallback with no last resort: the no-match error once the candidates
\* have all failed.
RECURSIVE TryFallbackNoLastResort(_, _, _, _)
TryFallbackNoLastResort(h, env, k, calls) ==
  IF k > Len(h.fallbackStrategies)
    THEN Resolved(h, NoElement, "nomatch", calls)
    ELSE LET s == h.fallbackStrategies[k]
             c == env.cand[s]
             calls2 == Append(calls, <<"$", s>>)
             h2 == [h EXCEPT !.element = s]
             calls3 == Append(calls2, <<"isDisplayed", s>>)
         IN CASE c = "lookupFault" -> TryFallbackNoLastResort(h, env, k + 1, calls2)
              [] c = "shown" ->
                   Resolved([h2 EXCEPT !.elementCacheValid = TRUE], s, "", calls3)
              [] OTHER -> TryFallbackNoLastResort(h2, env, k + 1, calls3)

\* _getElement(), lines 1796-1810: the fallback strategies from the k-th on.
RECURSIVE TryFallback(_, _, _, _)
TryFallback(h, env, k, calls) ==
  IF k > Len(h.fallbackStrategies)
    THEN MainLookup(h, env, calls)
    ELSE LET s == h.fallbackStrategies[k]
             c == env.cand[s]
             calls2 == Append(calls, <<"$", s>>)
             h2 == [h EXCEPT !.element = s]
             calls3 == Append(calls2, <<"isDisplayed", s>>)
         IN CASE c = "lookupFault" -> TryFallback(h, env, k + 1, calls2)
              [] c = "shown" ->
                   Resolved([h2 EXCEPT !.elementCacheValid = TRUE], s, "", calls3)
              [] OTHER -> TryFallback(h2, env, k + 1, calls3)

\* IndexedLookup with a negative index not counted from the end.
IndexedLookupNoNegative(h, env, calls) ==
  LET calls2 == Append(calls, <<"$$", 0>>)
      elements == env.all
      realIndex == h.index
  IN CASE env.allFault -> Resolved(h, NoElement, "remote", calls2)
       [] Len(elements) = 0 -> Resolved(h, NoElement, "nomatch", calls2)
       [] realIndex < 0 \/ realIndex >= Len(elements) ->
            Resolved(h, NoElement, "range", calls2)
       [] OTHER ->
            Resolved([h EXCEPT !.element = elements[realIndex + 1],
                               !.elementCacheValid = TRUE],
                     elements[realIndex + 1], "", calls2)

\* IndexedLookup with the range check made before the empty-set check.
IndexedLookupRangeFirst(h, env, calls) ==
  LET calls2 == Append(calls, <<"$$", 0>>)
      elements == env.all
      realIndex == IF h.index < 0 THEN Len(elements) + h.index ELSE h.index
  IN CASE env.allFault -> Resolved(h, NoElement, "remote", calls2)
       [] realIndex < 0 \/ realIndex >= Len(elements) ->
            Resolved(h, NoElement, "range", calls2)
       [] Len(elements) = 0 -> Resolved(h, NoElement, "nomatch", calls2)
       [] OTHER ->
            Resolved([h EXCEPT !.element = elements[realIndex + 1],
                               !.elementCacheValid = TRUE],
                     elements[realIndex + 1], "", calls2)

\* IndexedLookup with the element returned and not stored in the handle.
IndexedLookupNoStore(h, env, calls) ==
  LET calls2 == Append(calls, <<"$$", 0>>)
      elements == env.all
      realIndex == IF h.index < 0 THEN Len(elements) + h.index ELSE h.index
  IN CASE env.allFault -> Resolved(h, NoElement, "remote", calls2)
       [] Len(elements) = 0 -> Resolved(h, NoElement, "nomatch", calls2)
       [] realIndex < 0 \/ realIndex >= Len(elements) ->
            Resolved(h, NoElement, "range", calls2)
       [] OTHER -> Resolved(h, elements[realIndex + 1], "", calls2)

\* IndexedLookup that writes the index it computed back into the handle.
IndexedLookupNormalises(h, env, calls) ==
  LET calls2 == Append(calls, <<"$$", 0>>)
      elements == env.all
      realIndex == IF h.index < 0 THEN Len(elements) + h.index ELSE h.index
  IN CASE env.allFault -> Resolved(h, NoElement, "remote", calls2)
       [] Len(elements) = 0 -> Resolved(h, NoElement, "nomatch", calls2)
       [] realIndex < 0 \/ realIndex >= Len(elements) ->
            Resolved(h, NoElement, "range", calls2)
       [] OTHER ->
            Resolved([h EXCEPT !.element = elements[realIndex + 1],
                               !.elementCacheValid = TRUE, !.index = realIndex],
                     elements[realIndex + 1], "", calls2)

\* _getElement(), lines 1773-1794: the positional index.
IndexedLookup(h, env, calls) ==
  LET calls2 == Append(calls, <<"$$", 0>>)
      elements == env.all
      realIndex == IF h.index < 0 THEN Len(elements) + h.index ELSE h.index
  IN CASE env.allFault -> Resolved(h, NoElement, "remote", calls2)
       [] Len(elements) = 0 -> Resolved(h, NoElement, "nomatch", calls2)
       [] realIndex < 0 \/ realIndex >= Len(elements) ->
            Resolved(h, NoElement, "range", calls2)
       [] OTHER ->
            Resolved([h EXCEPT !.element = elements[realIndex + 1],
                               !.elementCacheValid = TRUE],
                     elements[realIndex + 1], "", calls2)

\* FreshLookup with a failed indexed lookup going on to the main strategy.
FreshLookupIndexThenMain(h, env, calls) ==
  IF h.index # NoIndex
    THEN LET r == IndexedLookup(h, env, calls)
         IN IF r.err = "" THEN r ELSE MainLookup(h, env, r.calls)
    ELSE IF Len(h.fallbackStrategies) > 0
           THEN TryFallback(h, env, 1, calls)
           ELSE MainLookup(h, env, calls)

\* _getElement(), lines 1772-1816: what follows the cache check.
FreshLookup(h, env, calls) ==
  IF h.index # NoIndex
    THEN IndexedLookup(h, env, calls)
    ELSE IF Len(h.fallbackStrategies) > 0
           THEN TryFallback(h, env, 1, calls)
           ELSE MainLookup(h, env, calls)

\* GetElement with the cache check not asking for a handle without index.
GetElementCachesIndexed(h, env) ==
  IF h.element # NoElement /\ h.elementCacheValid
    THEN LET calls == <<<<"isDisplayed", h.element>>>>
         IN CASE env.cached = "shown" -> Resolved(h, h.element, "", calls)
              [] env.cached = "fault" -> FreshLookup(InvalidateCache(h), env, calls)
              [] OTHER -> FreshLookup(h, env, calls)
    ELSE FreshLookup(h, env, <<>>)

\* _getElement(), lines 1751-1816.
GetElement(h, env) ==
  IF h.element # NoElement /\ h.index = NoIndex /\ h.elementCacheValid
    THEN LET calls == <<<<"isDisplayed", h.element>>>>
         IN CASE env.cached = "shown" -> Resolved(h, h.element, "", calls)
              [] env.cached = "fault" -> FreshLookup(InvalidateCache(h), env, calls)
              [] OTHER -> FreshLookup(h, env, calls)
    ELSE FreshLookup(h, env, <<>>)

\* ----------------------------------------------------------------- facade

\* _isMobile()
IsMobile == platform \in {"android", "ios"}

\* _ensureInitialized() passes (it throws otherwise).
EnsureInitialized == IF IsMobile THEN driver # 0 ELSE page # 0

\* The remote session a handle calls into is open.
SessionOpen(h) == <<"session", h.driver>> \in live

\* The inputs a resolution of h can meet: every answer of an open session for
\* the calls h can make, and a fault at every call otherwise.
InputsFor(h) ==
  IF ~SessionOpen(h) THEN {DeadInputs}
  ELSE IF h.index # NoIndex
    THEN {[DeadInputs EXCEPT !.allFault = TRUE]}
         \cup {[DeadInputs EXCEPT !.allFault = FALSE, !.all = m] : m \in MatchSets}
    ELSE {[cached |-> c, allFault |-> TRUE, all |-> <<>>, cand |-> f, mainFault |-> m] :
            c \in (IF h.element # NoElement /\ h.elementCacheValid
                     THEN {"shown", "hidden", "fault"} ELSE {"fault"}),
            f \in (IF Len(h.fallbackStrategies) > 0
                     THEN [1..Len(PlaceholderStrategies) -> CandOutcomes]
                     ELSE {DeadInputs.cand}),
            m \in BOOLEAN}

\* A property that is not defined (of an options or expectation object).
Undefined == 0 - 1

\* -------------------------------------------------------- environment map

\* The two facade instances of a script, the keys and values it uses, and the
\* objects that can hold an environment map: object 0 is the one the script
\* owns and may pass as config.env, object i the `{}` instance i creates.
Instances == {1, 2}
Keys == {"k1", "k2"}
Vals == {1, 2}
ScriptObject == 0
EmptyMap == [k \in Keys |-> Undefined]

\* this.env = config.env || {}: the object instance i keeps as its map, when
\* the script passed its object as config.env (passed) or did not.
EnvOf(i, passed) == IF passed THEN ScriptObject ELSE i

\* The environment maps:
\*   ref[i]   the object instance i holds in this.env
\*   heap[x]  the properties of object x (Undefined: not set)
\*   set[i][k] the value instance i's last setEnv(k, ...) was called with
\*   sets     how many setEnv calls have been made
NoEnvs ==
  [ref |-> [i \in Instances |-> EnvOf(i, FALSE)],
   heap |-> [x \in {ScriptObject} \cup Instances |-> EmptyMap],
   set |-> [i \in Instances |-> EmptyMap],
   sets |-> 0]

\* The two instances as a script can construct them: each with config.env
\* absent or the script's object, which holds nothing or one entry.
ConstructedEnvs ==
  {[NoEnvs EXCEPT !.ref = [i \in Instances |-> EnvOf(i, passed[i])],
                  !.heap[ScriptObject] = m] :
     passed \in [Instances -> BOOLEAN],
     m \in {EmptyMap, [EmptyMap EXCEPT !["k1"] = 1]}}

\* getEnv(key) on instance i: this.env[key]
EnvValue(i, k) == envs.heap[envs.ref[i]][k]

\* No operation is running.
\*   name, pc      the method and where it stands ("done": it has ended)
\*   n, i, delay   its bound (retries, maxAttempts, maxScrolls), its loop
\*                 counter, and whether options.delay > 0
\*   taps, okTaps, firstOk   tapOn calls made, those that returned, and the
\*                 number of the first that returned (0: none has)
\*   waits, waitFaults       waitFor calls made, those that threw
\*   scrolls, checks, seen   scroll calls, isVisible calls, and whether a
\*                 check has reported what the loop waits for
\*   resolved, q   a probe's inputs: the handle resolved, the element's answer
\*   ret, val      "ok" with the value returned, or "throw" with
\*   err, errSrc, errAt      the error, the call that raised it, and the
\*                 number of the tap attempt that raised it
\*   plain, exact, min, max  toHaveCount's argument: a plain number (kept in
\*                 exact) or an object with the properties that are defined
\*   got, bound    the count observed, and the bound the error message shows
\*   expected, observed, reads   a text assertion's expected value, the value
\*                 it read from the element, and how many reads it made
\*   said          the values the error message states, in order
\*   yields        what a call that returned gave the caller: "this", a
\*                 "boolean", a "locator", an "element", a "video", "undefined"
\*   remote        calls the operation itself made on the session
\*   inst, key, value        setEnv / getEnv: the instance called, the key,
\*                 and the value passed or returned
\*   warned        a warning or error was logged without a throw
\*   context       the message of the error thrown names the selector
\*   caught, logs  the faults the operation caught and did not throw again,
\*                 and the levels of the logger calls its catch blocks made
\*   visible, notVisible     extendedWaitUntil: the option was passed
\*   shown, hidden           extendedWaitUntil, in the iteration it ended in:
\*                 the check of `visible` returned true, the check of
\*                 `notVisible` returned false
IdleOp ==
  [name |-> "idle", pc |-> "idle", n |-> 0, i |-> 0, delay |-> FALSE,
   taps |-> 0, okTaps |-> 0, firstOk |-> 0, waits |-> 0, waitFaults |-> 0,
   scrolls |-> 0, checks |-> 0, seen |-> FALSE, resolved |-> FALSE, q |-> "",
   ret |-> "none", val |-> FALSE, err |-> "", errSrc |-> "", errAt |-> 0,
   warned |-> FALSE,
   plain |-> FALSE, exact |-> Undefined, min |-> Undefined, max |-> Undefined,
   got |-> Undefined, bound |-> Undefined,
   expected |-> <<>>, observed |-> <<>>, reads |-> 0, said |-> <<>>,
   yields |-> "none", remote |-> 0,
   inst |-> 0, key |-> "", value |-> Undefined,
   visible |-> FALSE, notVisible |-> FALSE, shown |-> FALSE, hidden |-> FALSE,
   context |-> FALSE, caught |-> 0, logs |-> <<>>]

NoLast == [h |-> NoLocator, env |-> DeadInputs, res |-> Resolved(NoLocator, NoElement, "", <<>>)]

Idle == op.name = "idle"

\* An operation that ends at once: `return this` (or a value), or a throw.
Returned(name) ==
  [IdleOp EXCEPT !.name = name, !.pc = "done", !.ret = "ok", !.yields = "this"]
Threw(name, err, src) ==
  [IdleOp EXCEPT !.name = name, !.pc = "done", !.ret = "throw", !.err = err, !.errSrc = src]

\* No call of the script is pending beside the operation it awaits.
NoOther == [name |-> "idle"]

\* new DualityTest(config): the fields of the session, lines 1905-1915.
InitFacade ==
  /\ platform \in Platforms
  /\ driver = 0 /\ browser = 0 /\ context = 0 /\ page = 0
  /\ live = {}
  /\ launches = 0
  /\ closed = FALSE
  /\ other = NoOther
  /\ loc = NoLocator
  /\ target = NoLocator
  /\ op = IdleOp
  /\ last = NoLast

\* The facade of a script that passes no config.env.
Init == InitFacade /\ envs = NoEnvs

\* launch(): _launchMobile / _launchWeb.  failAt names the remote call that
\* fails ("none": the launch succeeds).
Launch(failAt) ==
  /\ Idle
  /\ launches < MaxLaunches
  /\ launches' = launches + 1
  /\ closed' = FALSE
  /\ LET id == launches + 1
     IN IF IsMobile
          THEN /\ failAt \in {"none", "remote"}
               /\ driver' = IF failAt = "none" THEN id ELSE driver
               /\ live' = IF failAt = "none" THEN live \cup {<<"session", id>>} ELSE live
               /\ UNCHANGED <<browser, context, page>>
          ELSE /\ failAt \in {"none", "browser", "context", "page", "goto"}
               /\ browser' = IF failAt = "browser" THEN browser ELSE id
               /\ context' = IF failAt \in {"browser", "context"} THEN context ELSE id
               /\ page' = IF failAt \in {"browser", "context", "page"} THEN page ELSE id
               /\ live' = live
                    \cup (IF failAt = "browser" THEN {} ELSE {<<"browser", id>>})
                    \cup (IF failAt \in {"browser", "context"} THEN {} ELSE {<<"context", id>>})
                    \cup (IF failAt \in {"browser", "context", "page"} THEN {} ELSE {<<"page", id>>})
               /\ UNCHANGED driver
  /\ op' = IF failAt = "none" THEN Returned("launch") ELSE Threw("launch", "remote", failAt)
  /\ UNCHANGED <<platform, envs, other, loc, target, last>>

\* close(): one try around the releases; a fault is logged, never thrown.
\* failAt names the release that faults ("none": none does) and is kept in
\* errSrc; `?.` makes no call on a field that was never assigned.
Close(failAt) ==
  /\ Idle
  /\ failAt = "session" => driver # 0
  /\ failAt = "page" => page # 0
  /\ failAt = "context" => context # 0
  /\ failAt = "browser" => browser # 0
  /\ IF IsMobile
       THEN /\ failAt \in {"none", "session"}
            /\ failAt = "none" => (driver = 0 \/ <<"session", driver>> \in live)
            /\ live' = IF failAt = "none" THEN live \ {<<"session", driver>>} ELSE live
       ELSE /\ failAt \in {"none", "page", "context", "browser"}
            /\ live' = live
                 \ ((IF failAt = "page" THEN {} ELSE {<<"page", page>>})
                    \cup (IF failAt \in {"page", "context"} THEN {}
                          ELSE {<<"context", context>>, <<"page", context>>})
                    \cup (IF failAt = "none"
                            THEN {<<"browser", browser>>, <<"context", browser>>,
                                  <<"page", browser>>}
                            ELSE {}))
  /\ op' = [Returned("close") EXCEPT !.warned = (failAt # "none"), !.yields = "undefined",
                                    !.errSrc = IF failAt = "none" THEN "" ELSE failAt]
  /\ closed' = TRUE
  /\ UNCHANGED <<platform, driver, browser, context, page, launches, envs, other, loc, target, last>>

\* The selector factory on a mobile platform: the handle each method builds.
FactoryMethods ==
  {"getByTestId", "getByText", "getByRole", "getByLabel", "getByPlaceholder",
   "getById", "locator"}

\* Built with the option tested for truthiness: index 0 counts as absent.
BuiltTruthyIndex(method, index) ==
  CASE method = "getByTestId" -> MobileLocator(driver, "accessibility", NoStrategies, NoIndex)
    [] method \in {"getByText", "getByRole"} ->
         MobileLocator(driver, "xpath", NoStrategies, IF index = 0 THEN NoIndex ELSE index)
    [] method = "getByLabel" ->
         MobileLocator(driver, IF platform = "android" THEN "xpath" ELSE "accessibility",
                       NoStrategies, NoIndex)
    [] method = "getByPlaceholder" ->
         IF platform = "android"
           THEN MobileLocator(driver, "xpath", PlaceholderStrategies, NoIndex)
           ELSE MobileLocator(driver, "accessibility", NoStrategies, NoIndex)
    [] method = "getById" -> MobileLocator(driver, "id", NoStrategies, NoIndex)
    [] OTHER -> MobileLocator(driver, "xpath", NoStrategies, NoIndex)

Built(method, index) ==
  CASE method = "getByTestId" -> MobileLocator(driver, "accessibility", NoStrategies, NoIndex)
    [] method \in {"getByText", "getByRole"} ->
         MobileLocator(driver, "xpath", NoStrategies, index)
    [] method = "getByLabel" ->
         MobileLocator(driver, IF platform = "android" THEN "xpath" ELSE "accessibility",
                       NoStrategies, NoIndex)
    [] method = "getByPlaceholder" ->
         IF platform = "android"
           THEN MobileLocator(driver, "xpath", PlaceholderStrategies, NoIndex)
           ELSE MobileLocator(driver, "accessibility", NoStrategies, NoIndex)
    [] method = "getById" -> MobileLocator(driver, "id", NoStrategies, NoIndex)
    [] OTHER -> MobileLocator(driver, "xpath", NoStrategies, NoIndex)

\* A selector-factory call with the option index (NoIndex: no such option).
\* On web the browser engine's locator is built; the model keeps no state for it.
Factory(method, index) ==
  /\ Idle
  /\ method \in FactoryMethods
  /\ IF method # "getById" /\ ~EnsureInitialized
       THEN /\ op' = Threw(method, "init", "self")
            /\ loc' = loc
       ELSE IF IsMobile
         THEN /\ op' = [Returned(method) EXCEPT !.n = index, !.yields = "locator"]
              /\ loc' = Built(method, index)
         ELSE /\ op' = IF page = 0 THEN Threw(method, "type", "self")
                       ELSE [Returned(method) EXCEPT !.n = index, !.yields = "locator"]
              /\ loc' = loc
  /\ UNCHANGED <<platform, driver, browser, context, page, live, launches, closed, envs, other, target, last>>

\* _toMobileElement(selector): _toLocator, then locator._getElement().
ToMobileElement ==
  /\ Idle
  /\ IsMobile
  /\ IF ~EnsureInitialized
       THEN /\ op' = Threw("_toMobileElement", "init", "self")
            /\ UNCHANGED <<loc, last>>
       ELSE \E env \in InputsFor(loc) :
              LET r == GetElement(loc, env)
              IN /\ loc' = r.h
                 /\ last' = [h |-> loc, env |-> env, res |-> r]
                 /\ op' = IF r.err = ""
                            THEN [Returned("_toMobileElement") EXCEPT !.yields = "element"]
                          ELSE Threw("_toMobileElement", r.err, "resolve")
  /\ UNCHANGED <<platform, driver, browser, context, page, live, launches, closed, envs, other, target>>

\* ------------------------------------------- single calls of the facade

\* The session the facade's own remote calls go to is open.
FacadeSessionOpen ==
  IF IsMobile THEN <<"session", driver>> \in live ELSE <<"page", page>> \in live

\* What an element (or, on web, a browser locator) can answer a query with,
\* and what it can do with an interaction: a closed session only faults.
QueryAnswers(h) ==
  IF (IF IsMobile THEN SessionOpen(h) ELSE FacadeSessionOpen)
    THEN {"true", "false", "fault"} ELSE {"fault"}
ActAnswers(h) ==
  IF (IF IsMobile THEN SessionOpen(h) ELSE FacadeSessionOpen)
    THEN {"ok", "waitFault", "clickFault"} ELSE {"clickFault"}
\* driver.pause is a local timer; page.waitForTimeout is a remote call of
\* the browser, which rejects once the page is closed and may reject before.
PauseAnswers ==
  IF IsMobile THEN {"ok"}
  ELSE IF FacadeSessionOpen THEN {"ok", "fault"} ELSE {"fault"}
GestureAnswers == IF FacadeSessionOpen THEN {"ok", "fault"} ELSE {"fault"}

\* One call's result: the handle as the call leaves it, the error thrown
\* ("": none) and the value returned.
Called(h, err, val) == [h |-> h, err |-> err, val |-> val]

\* MobileLocator.tap(options): resolve, waitForDisplayed, click.
LocatorTap(h, env, act) ==
  LET r == GetElement(h, env)
  IN CASE r.err # "" -> Called(r.h, r.err, FALSE)
       [] act = "waitFault" -> Called(r.h, "timeout", FALSE)
       [] act = "clickFault" -> Called(r.h, "remote", FALSE)
       [] OTHER -> Called(r.h, "", TRUE)

\* MobileLocator.isVisible(): any fault is a false.
LocatorIsVisible(h, env, q) ==
  LET r == GetElement(h, env)
  IN Called(r.h, "", r.err = "" /\ q = "true")

\* MobileLocator.isEnabled(): any fault is a false.
LocatorIsEnabled(h, env, q) ==
  LET r == GetElement(h, env)
  IN Called(r.h, "", r.err = "" /\ q = "true")

\* tapOn(selector, options): the error is logged and thrown again.
TapOn(h, env, act) ==
  IF ~EnsureInitialized THEN Called(h, "init", FALSE)
  ELSE IF IsMobile THEN LocatorTap(h, env, act)
  ELSE Called(h, IF act = "ok" THEN "" ELSE "remote", act = "ok")

\* isVisible(selector): the initialization check stands before the try.
IsVisible(h, env, q) ==
  IF ~EnsureInitialized THEN Called(h, "init", FALSE)
  ELSE IF IsMobile THEN LocatorIsVisible(h, env, q)
  ELSE Called(h, "", q = "true")

\* isHidden(selector): !(await this.isVisible(selector))
IsHidden(h, env, q) ==
  LET r == IsVisible(h, env, q)
  IN IF r.err # "" THEN r ELSE Called(r.h, "", ~r.val)

\* isEnabled(selector): _toLocator's initialization check is inside the try.
IsEnabled(h, env, q) ==
  IF ~EnsureInitialized THEN Called(h, "", FALSE)
  ELSE IF IsMobile THEN LocatorIsEnabled(h, env, q)
  ELSE Called(h, "", q = "true")

\* isDisabled(selector): !(await this.isEnabled(selector))
IsDisabled(h, env, q) ==
  LET r == IsEnabled(h, env, q)
  IN IF r.err # "" THEN r ELSE Called(r.h, "", ~r.val)

\* waitFor(milliseconds): the error it throws ("": none).
WaitFor(w) ==
  IF ~EnsureInitialized THEN "init"
  ELSE IF w = "ok" THEN "" ELSE "remote"

\* swipe(direction, options): the error it throws ("": none).
Swipe(sw) ==
  IF ~EnsureInitialized THEN "init"
  ELSE IF sw = "ok" THEN "" ELSE "remote"

\* scroll(options): on android mobile:scrollGesture, and swipe if it fails;
\* swipe elsewhere.  The error it throws ("": none).
Scroll(g, sw) ==
  IF ~EnsureInitialized THEN "init"
  ELSE IF platform = "android" /\ g = "ok" THEN ""
  ELSE Swipe(sw)

\* Everything a call of tapOn / isVisible on handle h can do, over the inputs
\* it can meet.
TapResults(h) == {TapOn(h, env, act) : env \in InputsFor(h), act \in ActAnswers(h)}
VisibleResults(h) == {IsVisible(h, env, q) : env \in InputsFor(h), q \in QueryAnswers(h)}

Probes == {"isVisible", "isHidden", "isEnabled", "isDisabled"}

ProbeCall(name, h, env, q) ==
  CASE name = "isVisible" -> IsVisible(h, env, q)
    [] name = "isHidden" -> IsHidden(h, env, q)
    [] name = "isEnabled" -> IsEnabled(h, env, q)
    [] OTHER -> IsDisabled(h, env, q)

\* _getElement() begins with the check of the cached element (line 1753).
CachePath(h) == h.element # NoElement /\ h.index = NoIndex /\ h.elementCacheValid

\* The faults a resolution catches and does not throw again: a fault of the
\* cached element's isDisplayed() (lines 1758-1761), and a fault of a fallback
\* candidate's driver.$ or isDisplayed() (1805-1808).
ResolveCaught(h, env) ==
  LET r == GetElement(h, env)
      fresh == IF CachePath(h) THEN Tail(r.calls) ELSE r.calls
      faulted(c) ==
        /\ c[2] \in 1..Len(PlaceholderStrategies)
        /\ \/ c[1] = "$" /\ env.cand[c[2]] = "lookupFault"
           \/ c[1] = "isDisplayed" /\ env.cand[c[2]] = "displayFault"
  IN (IF CachePath(h) /\ env.cached = "fault" THEN 1 ELSE 0)
     + Len(SelectSeq(fresh, faulted))

\* The faults a probe catches and does not throw again: those of the
\* resolution, and the one MobileLocator.isVisible / isEnabled (1844, 1853)
\* or, on web, the facade's own catch (2826, 2845) turns into false.
\* isVisible's initialization check stands before its try; isEnabled's
\* first fault before launch is raised inside it.
ProbeCaught(name, h, env, q) ==
  IF ~EnsureInitialized
    THEN IF name \in {"isVisible", "isHidden"} THEN 0 ELSE 1
  ELSE IF IsMobile
    THEN ResolveCaught(h, env)
         + (IF GetElement(h, env).err # "" \/ q = "fault" THEN 1 ELSE 0)
    ELSE IF q = "fault" THEN 1 ELSE 0

\* The logger calls a probe's catch blocks make: the facade's isVisible logs
\* at debug level what its own catch catches (2827), which on mobile is
\* nothing, MobileLocator.isVisible having caught it; no other catch of a
\* probe or of the resolution calls the logger.
ProbeLogs(name, h, env, q) ==
  IF /\ name \in {"isVisible", "isHidden"}
     /\ EnsureInitialized /\ ~IsMobile /\ q = "fault"
    THEN <<"debug">> ELSE <<>>

\* Everything a probe of handle h can do, with the inputs that decide it:
\* whether the handle resolved, and what the element answered.
ProbeResults(name, h) ==
  {[r |-> ProbeCall(name, h, env, q),
    resolved |-> (IsMobile /\ GetElement(h, env).err = ""), q |-> q,
    caught |-> ProbeCaught(name, h, env, q), logs |-> ProbeLogs(name, h, env, q)] :
     env \in InputsFor(h), q \in QueryAnswers(h)}

\* A boolean probe called by the script on the handle it holds.
Probe(name) ==
  /\ Idle
  /\ name \in Probes
  /\ \E c \in ProbeResults(name, loc) :
       /\ loc' = c.r.h
       /\ op' = [(IF c.r.err = ""
                     THEN [Returned(name) EXCEPT !.yields = "boolean"]
                     ELSE Threw(name, c.r.err, "self"))
                   EXCEPT !.val = c.r.val, !.resolved = c.resolved, !.q = c.q,
                          !.caught = c.caught, !.logs = c.logs]
  /\ UNCHANGED <<platform, driver, browser, context, page, live, launches, closed, envs, other, target, last>>

\* ---------------------------------------------- tapOn, fill and getText

\* The operations on an element that are not probes, called on their own.
Interactions == {"tapOn", "fill", "getText"}

\* fill(selector, text): MobileLocator.fill resolves, waits for the element
\* to be displayed and sets the value; the error is logged and thrown again.
Fill(h, env, act) ==
  IF ~EnsureInitialized THEN Called(h, "init", FALSE)
  ELSE IF IsMobile THEN LocatorTap(h, env, act)
  ELSE Called(h, IF act = "ok" THEN "" ELSE "remote", act = "ok")

\* getText(selector): MobileLocator.getText resolves and reads the text; no
\* try stands around it.
GetText(h, env, act) ==
  IF ~EnsureInitialized THEN Called(h, "init", FALSE)
  ELSE IF IsMobile
    THEN LET r == GetElement(h, env)
         IN CASE r.err # "" -> Called(r.h, r.err, FALSE)
              [] act # "ok" -> Called(r.h, "remote", FALSE)
              [] OTHER -> Called(r.h, "", TRUE)
    ELSE Called(h, IF act = "ok" THEN "" ELSE "remote", act = "ok")

InteractionCall(name, h, env, act) ==
  CASE name = "tapOn" -> TapOn(h, env, act)
    [] name = "fill" -> Fill(h, env, act)
    [] OTHER -> GetText(h, env, act)

InteractionResults(name, h) ==
  {InteractionCall(name, h, env, act) : env \in InputsFor(h), act \in ActAnswers(h)}

\* Whether the message of an error names the selector, as the error is raised:
\* the no-match error does (line 1776); the out-of-range error states the
\* index and the count (1786) and the initialization error the missing
\* launch (3420-3430); the message of a fault of the remote library is the
\* library's (named).
MessageNamesSelector(err, named) ==
  CASE err = "nomatch" -> TRUE
    [] err \in {"range", "init"} -> FALSE
    [] OTHER -> named

\* The error as the operation throws it: the catch of tapOn (2226-2229) and of
\* fill (2489-2492) passes the selector to the logger and throws the error it
\* caught; getText has no catch.  The message is the one the error had.
ThrownNamesSelector(name, err, named) == MessageNamesSelector(err, named)

\* The logger calls of the catch: tapOn and fill log at error level what they
\* catch; the initialization check stands before their try.
InteractionLogs(name, err) ==
  IF name \in {"tapOn", "fill"} /\ err # "init" THEN <<"error">> ELSE <<>>

\* tapOn, fill or getText called by the script on the handle it holds.
Interaction(name) ==
  /\ Idle
  /\ name \in Interactions
  /\ \E r \in InteractionResults(name, loc), named \in BOOLEAN :
       /\ loc' = r.h
       /\ op' = IF r.err = ""
                  THEN [Returned(name) EXCEPT
                          !.yields = IF name = "getText" THEN "text" ELSE "this"]
                  ELSE [Threw(name, r.err, "self") EXCEPT
                          !.context = ThrownNamesSelector(name, r.err, named),
                          !.logs = InteractionLogs(name, r.err)]
  /\ UNCHANGED <<platform, driver, browser, context, page, live, launches, closed, envs, other, target, last>>

\* --------------------------------------------------------- tapOnWithRetry

\* An orchestrator's step leaves the facade's session fields alone.
FacadeUnchanged == UNCHANGED <<platform, driver, browser, context, page, live, launches, closed, envs, other, last>>

\* The operation ends: `return this`, or a throw of err raised by src.
EndOk(o) == [o EXCEPT !.pc = "done", !.ret = "ok", !.yields = "this"]
EndThrow(o, err, src) ==
  [o EXCEPT !.pc = "done", !.ret = "throw", !.err = err, !.errSrc = src, !.errAt = o.taps]

\* ------------------------------------------------------------ toHaveCount

\* What count(selector) can do on handle h: the number of matches (a fault of
\* driver.$$ is a 0 in MobileLocator.count), or on web a count or a throw.
CountCalls(h) ==
  IF ~EnsureInitialized THEN {[err |-> "init", n |-> Undefined]}
  ELSE IF IsMobile
    THEN IF SessionOpen(h) THEN {[err |-> "", n |-> k] : k \in 0..MaxMatches}
         ELSE {[err |-> "", n |-> 0]}
    ELSE IF FacadeSessionOpen
      THEN {[err |-> "", n |-> k] : k \in 0..MaxMatches} \cup {[err |-> "remote", n |-> Undefined]}
      ELSE {[err |-> "remote", n |-> Undefined]}

\* The arguments a script passes as `count`: a number, or an object with any
\* of exact, min and max.
CountBounds == 0..MaxCount
CountArguments ==
  {[plain |-> TRUE, exact |-> n, min |-> Undefined, max |-> Undefined] : n \in CountBounds}
  \cup {[plain |-> FALSE, exact |-> e, min |-> lo, max |-> hi] :
          e \in CountBounds \cup {Undefined}, lo \in CountBounds \cup {Undefined},
          hi \in CountBounds \cup {Undefined}}

\* typeof count === 'object' ? count : { exact: count }
ExpectedCount(count) ==
  IF count.plain THEN [exact |-> count.exact, min |-> Undefined, max |-> Undefined]
  ELSE [exact |-> count.exact, min |-> count.min, max |-> count.max]

\* The comparison that lets an observed count below min pass.
CompareCountNoMin(actualCount, count) ==
  LET e == ExpectedCount(count)
  IN CASE e.exact # Undefined /\ actualCount # e.exact -> [err |-> "exact", bound |-> e.exact]
       [] e.max # Undefined /\ actualCount > e.max -> [err |-> "max", bound |-> e.max]
       [] OTHER -> [err |-> "", bound |-> Undefined]

\* The three tests of toHaveCount, in order; the first that fails throws.
CompareCount(actualCount, count) ==
  LET e == ExpectedCount(count)
  IN CASE e.exact # Undefined /\ actualCount # e.exact -> [err |-> "exact", bound |-> e.exact]
       [] e.min # Undefined /\ actualCount < e.min -> [err |-> "min", bound |-> e.min]
       [] e.max # Undefined /\ actualCount > e.max -> [err |-> "max", bound |-> e.max]
       [] OTHER -> [err |-> "", bound |-> Undefined]

\* toHaveCount(selector, count) on the handle the script holds.
ToHaveCount ==
  /\ Idle
  /\ \E count \in CountArguments, c \in CountCalls(loc) :
       LET o == [IdleOp EXCEPT !.name = "toHaveCount", !.plain = count.plain,
                               !.exact = count.exact, !.min = count.min,
                               !.max = count.max, !.got = c.n]
           r == CompareCount(c.n, count)
       IN op' = CASE c.err # "" -> EndThrow(o, c.err, "count")
                  [] r.err # "" -> EndThrow([o EXCEPT !.bound = r.bound], r.err, "self")
                  [] OTHER -> EndOk(o)
  /\ UNCHANGED <<loc, target>>
  /\ FacadeUnchanged

\* count(selector), lines 2865-2873, called by the script on the handle it
\* holds: MobileLocator.count() queries the match set and touches no field.
Count ==
  /\ Idle
  /\ \E c \in CountCalls(loc) :
       op' = IF c.err # "" THEN Threw("count", c.err, "self")
             ELSE [Returned("count") EXCEPT !.got = c.n, !.yields = "number"]
  /\ UNCHANGED <<loc, target>>
  /\ FacadeUnchanged

\* ------------------------------------- toHaveText, toContainText, toHaveValue

\* The texts and values of the model: strings over two characters.
Texts == {<<"a">>, <<"b">>, <<"a", "b">>}

\* String.prototype.includes
Includes(s, t) ==
  \E k \in 0..(Len(s) - Len(t)) : SubSeq(s, k + 1, k + Len(t)) = t

TextAssertions == {"toHaveText", "toContainText", "toHaveValue"}

\* The comparison of each assertion on mobile: !==, or !includes.
Matches(name, actual, text) ==
  IF name = "toContainText" THEN Includes(actual, text) ELSE actual = text

\* A read that is made again when the first value does not match.
ObservePolling(name, vals, text) ==
  IF Matches(name, vals[1], text) THEN [reads |-> 1, actual |-> vals[1]]
  ELSE [reads |-> 2, actual |-> vals[2]]

\* getText(selector) / getValue(selector) is awaited once: of the values the
\* element has over time (vals) the assertion observes the first.
Observe(name, vals, text) == [reads |-> 1, actual |-> vals[1]]

\* What the read of a text assertion can do on handle h on mobile: the handle
\* as resolution leaves it, the error thrown before a value is read ("": none).
ReadCalls(h) ==
  {[h |-> GetElement(h, env).h,
    err |-> IF GetElement(h, env).err # "" THEN "resolve"
            ELSE IF a = "ok" THEN "" ELSE "read"] :
     env \in InputsFor(h), a \in (IF SessionOpen(h) THEN {"ok", "fault"} ELSE {"fault"})}

\* toHaveText / toContainText / toHaveValue (selector, text).  On web the
\* browser engine's own assertion is awaited: it passes or throws.
TextAssertion(name) ==
  /\ Idle
  /\ name \in TextAssertions
  /\ \E text \in Texts :
     LET o == [IdleOp EXCEPT !.name = name, !.expected = text]
     IN IF ~EnsureInitialized
          THEN /\ op' = EndThrow(o, "init", "self")
               /\ loc' = loc
        ELSE IF ~IsMobile
          THEN /\ \E e \in (IF FacadeSessionOpen THEN {"", "engine"} ELSE {"remote"}) :
                    op' = IF e = "" THEN EndOk(o) ELSE EndThrow(o, e, "engine")
               /\ loc' = loc
        ELSE \E c \in ReadCalls(loc), vals \in Texts \X Texts :
               /\ loc' = c.h
               /\ op' = IF c.err # "" THEN EndThrow(o, "remote", c.err)
                        ELSE LET r == Observe(name, vals, text)
                                 d == [o EXCEPT !.reads = r.reads, !.observed = r.actual]
                             IN IF Matches(name, r.actual, text) THEN EndOk(d)
                                ELSE EndThrow([d EXCEPT !.said = <<text, r.actual>>],
                                              "mismatch", "self")
  /\ UNCHANGED target
  /\ FacadeUnchanged

\* ---------------------------------- operations one platform does not support

\* The operations the mobile platform cannot support.
WebOnlyOperations == {"toHaveURL", "toHaveTitle", "openLink", "forward"}

\* The branch that throws instead of warning.
UnsupportedThrows(o) == EndThrow(o, "unsupported", "self")

\* The branch of the platform that cannot support the operation:
\* this.logger.warn(...), then `return this`.
Unsupported(o) == EndOk([o EXCEPT !.warned = TRUE])

\* One call on the page or the driver made without an initialization check:
\* a TypeError when the field is null, else the call's answer.
Unguarded(o, field, a) ==
  IF field = 0 THEN EndThrow(o, "type", "self")
  ELSE IF a = "ok" THEN EndOk([o EXCEPT !.remote = 1])
  ELSE EndThrow([o EXCEPT !.remote = 1], "remote", "call")

\* toHaveURL / toHaveTitle / openLink / forward: a warning on android and ios,
\* the page's call on web.
WebOnly(name) ==
  /\ Idle
  /\ name \in WebOnlyOperations
  /\ LET o == [IdleOp EXCEPT !.name = name]
     IN IF IsMobile THEN op' = Unsupported(o)
        ELSE \E a \in GestureAnswers : op' = Unguarded(o, page, a)
  /\ UNCHANGED <<loc, target>>
  /\ FacadeUnchanged

RecordingOperations == {"startRecording", "stopRecording"}

\* startRecording() / stopRecording(): the driver's call on android and ios
\* (stopRecording returns the video), a warning on web.
Recording(name) ==
  /\ Idle
  /\ name \in RecordingOperations
  /\ LET o == [IdleOp EXCEPT !.name = name]
     IN IF ~IsMobile THEN op' = Unsupported(o)
        ELSE \E a \in GestureAnswers :
               LET r == Unguarded(o, driver, a)
               IN op' = IF name = "stopRecording" /\ r.ret = "ok"
                          THEN [r EXCEPT !.yields = "video"] ELSE r
  /\ UNCHANGED <<loc, target>>
  /\ FacadeUnchanged

\* ------------------------------------------------------- setEnv, getEnv

SessionUnchanged ==
  UNCHANGED <<platform, driver, browser, context, page, live, launches, closed, other,
              loc, target, last>>

\* setEnv(key, value) on instance i: this.env[key] = value; return this
SetEnv(i, k, v) ==
  /\ Idle
  /\ envs.sets < MaxSets
  /\ envs' = [envs EXCEPT !.heap[envs.ref[i]][k] = v, !.set[i][k] = v, !.sets = @ + 1]
  /\ op' = [Returned("setEnv") EXCEPT !.inst = i, !.key = k, !.value = v]
  /\ SessionUnchanged

\* getEnv(key) on instance i: return this.env[key]
GetEnv(i, k) ==
  /\ Idle
  /\ op' = [Returned("getEnv") EXCEPT !.inst = i, !.key = k, !.value = EnvValue(i, k),
                                      !.yields = "value"]
  /\ UNCHANGED envs
  /\ SessionUnchanged

\* ------------------------------------------------- calls that are not awaited

\* The script calls tapOn(selector) and does not await the promise: the call
\* runs to its first await and stays pending.  No method of the facade tests
\* whether another operation of the instance is pending.
CallUnawaited ==
  /\ other.name = "idle"
  /\ other' = [name |-> "tapOn"]
  /\ UNCHANGED <<platform, driver, browser, context, page, live, launches, closed, envs,
                 loc, target, op, last>>

\* The pending tapOn runs to its end: it resolves the handle, writing the
\* handle's cache, and taps; nobody takes its result.
UnawaitedSettles ==
  /\ other.name # "idle"
  /\ other' = NoOther
  /\ \E r \in TapResults(loc) : loc' = r.h
  /\ UNCHANGED <<platform, driver, browser, context, page, live, launches, closed, envs,
                 target, op, last>>

\* tapOnWithRetry(selector, {retries: n, delay}), lines 2284-2292.
StartTapOnWithRetry(n, delay) ==
  /\ Idle
  /\ op' = LET o == [IdleOp EXCEPT !.name = "tapOnWithRetry", !.n = n, !.delay = delay]
           IN IF 0 < n THEN [o EXCEPT !.pc = "tap"] ELSE EndOk(o)
  /\ UNCHANGED <<loc, target>>
  /\ FacadeUnchanged

\* The catch block that throws on the attempt before the last.
RetryCatchEarly(o, err, src) ==
  IF o.i >= o.n - 2
    THEN EndThrow(o, err, src)
    ELSE [o EXCEPT !.pc = "delayRetry"]

\* The catch block of the loop, lines 2303-2316: throw the error caught on
\* the last iteration, wait and go on otherwise.
RetryCatch(o, err, src) ==
  IF o.i = o.n - 1
    THEN EndThrow(o, err, src)
    ELSE [o EXCEPT !.pc = "delayRetry"]

\* The tap returned and the loop goes on to the next attempt all the same.
RetryTappedGoesOn(o) ==
  IF o.i = o.n - 1 THEN EndOk(o) ELSE [o EXCEPT !.pc = "delayRetry"]

\* What follows a tap that returned, lines 2294-2301: the wait when
\* options.delay > 0, then `return this`.
RetryTapped(o) ==
  IF o.delay THEN [o EXCEPT !.pc = "delayOk"] ELSE EndOk(o)

\* One attempt, lines 2293-2294 (and the catch when tapOn throws).
RetryTap ==
  /\ op.name = "tapOnWithRetry" /\ op.pc = "tap"
  /\ \E r \in TapResults(loc) :
     LET o == [op EXCEPT !.taps = @ + 1]
     IN /\ loc' = r.h
        /\ op' = IF r.err = ""
                   THEN RetryTapped([o EXCEPT !.okTaps = @ + 1,
                                              !.firstOk = IF @ = 0 THEN o.taps ELSE @])
                   ELSE RetryCatch(o, r.err, "tap")
  /\ UNCHANGED target
  /\ FacadeUnchanged

\* The wait after a tap that returned, lines 2297-2302: still inside the try.
RetryDelayOk ==
  /\ op.name = "tapOnWithRetry" /\ op.pc = "delayOk"
  /\ \E w \in PauseAnswers :
     LET e == WaitFor(w)
         o == [op EXCEPT !.waits = @ + 1]
     IN op' = IF e = "" THEN EndOk(o)
              ELSE RetryCatch([o EXCEPT !.waitFaults = @ + 1], e, "wait")
  /\ UNCHANGED <<loc, target>>
  /\ FacadeUnchanged

\* The wait before the next attempt, line 2316: outside the try.
RetryDelayRetry ==
  /\ op.name = "tapOnWithRetry" /\ op.pc = "delayRetry"
  /\ \E w \in PauseAnswers :
     LET e == WaitFor(w)
         o == [op EXCEPT !.waits = @ + 1]
     IN op' = IF e = "" THEN [o EXCEPT !.i = @ + 1, !.pc = "tap"]
              ELSE EndThrow([o EXCEPT !.waitFaults = @ + 1], e, "wait")
  /\ UNCHANGED <<loc, target>>
  /\ FacadeUnchanged

\* --------------------------------------------------------- tapOnUntilGone

\* An operation of the two tap-until loops is at position pc.
At(name, pc) == op.name = name /\ op.pc = pc

\* tapOnUntilGone without the log-only ending: exhaustion throws.
GoneExhaustedThrows(o) == EndThrow(o, "target", "self")

\* Lines 2363-2368: the loop ran out; a warning is logged, `return this`.
GoneExhausted(o) == EndOk([o EXCEPT !.warned = TRUE])

\* tapOnUntilGone(selector, {maxAttempts: n}), lines 2323-2332.
StartTapOnUntilGone(n) ==
  /\ Idle
  /\ op' = LET o == [IdleOp EXCEPT !.name = "tapOnUntilGone", !.n = n]
           IN IF 0 < n THEN [o EXCEPT !.pc = "check"] ELSE GoneExhausted(o)
  /\ UNCHANGED <<loc, target>>
  /\ FacadeUnchanged

\* Lines 2333-2338: gone before the tap ends the loop.
GoneCheck ==
  /\ At("tapOnUntilGone", "check")
  /\ \E r \in VisibleResults(loc) :
     LET o == [op EXCEPT !.checks = @ + 1]
     IN /\ loc' = r.h
        /\ op' = CASE r.err # "" -> EndThrow(o, r.err, "check")
                   [] ~r.val -> EndOk([o EXCEPT !.seen = TRUE])
                   [] OTHER -> [o EXCEPT !.pc = "tap"]
  /\ UNCHANGED target
  /\ FacadeUnchanged

\* GoneTap without the try around the tap: a fault of the tap is thrown.
GoneTapPropagates ==
  /\ At("tapOnUntilGone", "tap")
  /\ \E r \in TapResults(loc) :
     LET o == [op EXCEPT !.taps = @ + 1]
     IN /\ loc' = r.h
        /\ op' = IF r.err = ""
                   THEN [o EXCEPT !.okTaps = @ + 1, !.pc = "tapDelay"]
                   ELSE EndThrow(o, r.err, "tap")
  /\ UNCHANGED target
  /\ FacadeUnchanged

\* Lines 2340-2345: the tap; its failure is logged and ignored.
GoneTap ==
  /\ At("tapOnUntilGone", "tap")
  /\ \E r \in TapResults(loc) :
       /\ loc' = r.h
       /\ op' = [op EXCEPT !.taps = @ + 1,
                           !.okTaps = IF r.err = "" THEN @ + 1 ELSE @,
                           !.pc = "tapDelay"]
  /\ UNCHANGED target
  /\ FacadeUnchanged

\* Line 2348: the wait after the tap.
GoneTapDelay ==
  /\ At("tapOnUntilGone", "tapDelay")
  /\ \E w \in PauseAnswers :
     LET e == WaitFor(w)
         o == [op EXCEPT !.waits = @ + 1]
     IN op' = IF e = "" THEN [o EXCEPT !.pc = "recheck"]
              ELSE EndThrow([o EXCEPT !.waitFaults = @ + 1], e, "wait")
  /\ UNCHANGED <<loc, target>>
  /\ FacadeUnchanged

\* Lines 2350-2360: gone after the tap ends the loop; the last iteration does
\* not wait.
GoneRecheck ==
  /\ At("tapOnUntilGone", "recheck")
  /\ \E r \in VisibleResults(loc) :
     LET o == [op EXCEPT !.checks = @ + 1]
     IN /\ loc' = r.h
        /\ op' = CASE r.err # "" -> EndThrow(o, r.err, "check")
                   [] ~r.val -> EndOk([o EXCEPT !.seen = TRUE])
                   [] o.i < o.n - 1 -> [o EXCEPT !.pc = "interval"]
                   [] OTHER -> GoneExhausted([o EXCEPT !.i = @ + 1])
  /\ UNCHANGED target
  /\ FacadeUnchanged

\* GoneInterval with the loop counter left as it is.
GoneIntervalNoCount ==
  /\ At("tapOnUntilGone", "interval")
  /\ \E w \in PauseAnswers :
     LET e == WaitFor(w)
         o == [op EXCEPT !.waits = @ + 1]
     IN op' = IF e = "" THEN [o EXCEPT !.pc = "check"]
              ELSE EndThrow([o EXCEPT !.waitFaults = @ + 1], e, "wait")
  /\ UNCHANGED <<loc, target>>
  /\ FacadeUnchanged

\* Lines 2358-2360: the wait before the next iteration.
GoneInterval ==
  /\ At("tapOnUntilGone", "interval")
  /\ \E w \in PauseAnswers :
     LET e == WaitFor(w)
         o == [op EXCEPT !.waits = @ + 1]
     IN op' = IF e = "" THEN [o EXCEPT !.i = @ + 1, !.pc = "check"]
              ELSE EndThrow([o EXCEPT !.waitFaults = @ + 1], e, "wait")
  /\ UNCHANGED <<loc, target>>
  /\ FacadeUnchanged

\* ------------------------------------------------------ tapOnUntilVisible

\* tapOnUntilVisible ending as tapOnUntilGone does: a warning, no throw.
VisibleExhaustedSilent(o) == EndOk([o EXCEPT !.warned = TRUE])

\* Lines 2414-2420: the loop ran out; a warning is logged and the
\* target-not-visible error thrown.
VisibleExhausted(o) == EndThrow([o EXCEPT !.warned = TRUE], "target", "self")

\* tapOnUntilVisible(selector, targetSelector, {maxAttempts: n}), lines
\* 2372-2382.  The script passes a handle of its own as targetSelector.
StartTapOnUntilVisible(n) ==
  /\ Idle
  /\ op' = LET o == [IdleOp EXCEPT !.name = "tapOnUntilVisible", !.n = n]
           IN IF 0 < n THEN [o EXCEPT !.pc = "check"] ELSE VisibleExhausted(o)
  /\ target' = MobileLocator(driver, "id", NoStrategies, NoIndex)
  /\ UNCHANGED loc
  /\ FacadeUnchanged

\* Lines 2383-2389: the target visible before the tap ends the loop.
VisibleCheck ==
  /\ At("tapOnUntilVisible", "check")
  /\ \E r \in VisibleResults(target) :
     LET o == [op EXCEPT !.checks = @ + 1]
     IN /\ target' = r.h
        /\ op' = CASE r.err # "" -> EndThrow(o, r.err, "check")
                   [] r.val -> EndOk([o EXCEPT !.seen = TRUE])
                   [] OTHER -> [o EXCEPT !.pc = "tap"]
  /\ UNCHANGED loc
  /\ FacadeUnchanged

\* Lines 2391-2396: the tap; its failure is logged and ignored.
VisibleTap ==
  /\ At("tapOnUntilVisible", "tap")
  /\ \E r \in TapResults(loc) :
       /\ loc' = r.h
       /\ op' = [op EXCEPT !.taps = @ + 1,
                           !.okTaps = IF r.err = "" THEN @ + 1 ELSE @,
                           !.pc = "tapDelay"]
  /\ UNCHANGED target
  /\ FacadeUnchanged

\* Line 2399: the wait after the tap.
VisibleTapDelay ==
  /\ At("tapOnUntilVisible", "tapDelay")
  /\ \E w \in PauseAnswers :
     LET e == WaitFor(w)
         o == [op EXCEPT !.waits = @ + 1]
     IN op' = IF e = "" THEN [o EXCEPT !.pc = "recheck"]
              ELSE EndThrow([o EXCEPT !.waitFaults = @ + 1], e, "wait")
  /\ UNCHANGED <<loc, target>>
  /\ FacadeUnchanged

\* Lines 2401-2411: the target visible after the tap ends the loop; the last
\* iteration does not wait.
VisibleRecheck ==
  /\ At("tapOnUntilVisible", "recheck")
  /\ \E r \in VisibleResults(target) :
     LET o == [op EXCEPT !.checks = @ + 1]
     IN /\ target' = r.h
        /\ op' = CASE r.err # "" -> EndThrow(o, r.err, "check")
                   [] r.val -> EndOk([o EXCEPT !.seen = TRUE])
                   [] o.i < o.n - 1 -> [o EXCEPT !.pc = "interval"]
                   [] OTHER -> VisibleExhausted([o EXCEPT !.i = @ + 1])
  /\ UNCHANGED loc
  /\ FacadeUnchanged

\* Lines 2409-2411: the wait before the next iteration.
VisibleInterval ==
  /\ At("tapOnUntilVisible", "interval")
  /\ \E w \in PauseAnswers :
     LET e == WaitFor(w)
         o == [op EXCEPT !.waits = @ + 1]
     IN op' = IF e = "" THEN [o EXCEPT !.i = @ + 1, !.pc = "check"]
              ELSE EndThrow([o EXCEPT !.waitFaults = @ + 1], e, "wait")
  /\ UNCHANGED <<loc, target>>
  /\ FacadeUnchanged

\* ----------------------------------------------------- scrollUntilVisible

\* Lines 2649-2650: the loop ran out; the error names the scroll count.
ScrollExhausted(o) == EndThrow(o, "scrolls", "self")

\* The check that scrolls once more before it returns.
ScrollCheckedLate(o, visible) == [o EXCEPT !.pc = "scroll", !.seen = visible]

\* Lines 2642-2643: visible ends the loop at once.
ScrollChecked(o, visible) ==
  IF visible THEN EndOk([o EXCEPT !.seen = TRUE]) ELSE [o EXCEPT !.pc = "scroll"]

\* scrollUntilVisible(selector, {maxScrolls: n}), lines 2637-2641.
StartScrollUntilVisible(n) ==
  /\ Idle
  /\ op' = LET o == [IdleOp EXCEPT !.name = "scrollUntilVisible", !.n = n]
           IN IF 0 < n THEN [o EXCEPT !.pc = "check"] ELSE ScrollExhausted(o)
  /\ UNCHANGED <<loc, target>>
  /\ FacadeUnchanged

\* Line 2642: the visibility check.
ScrollCheck ==
  /\ At("scrollUntilVisible", "check")
  /\ \E r \in VisibleResults(loc) :
     LET o == [op EXCEPT !.checks = @ + 1]
     IN /\ loc' = r.h
        /\ op' = IF r.err # "" THEN EndThrow(o, r.err, "check")
                 ELSE ScrollChecked(o, r.val)
  /\ UNCHANGED target
  /\ FacadeUnchanged

\* Line 2645: one scroll.
ScrollOnce ==
  /\ At("scrollUntilVisible", "scroll")
  /\ \E g \in GestureAnswers, sw \in GestureAnswers :
     LET e == Scroll(g, sw)
         o == [op EXCEPT !.scrolls = @ + 1]
     IN op' = IF e = "" THEN [o EXCEPT !.pc = "settle"]
              ELSE EndThrow(o, e, "scroll")
  /\ UNCHANGED <<loc, target>>
  /\ FacadeUnchanged

\* Line 2646: the settle wait, then the next iteration or the end of the loop.
ScrollSettle ==
  /\ At("scrollUntilVisible", "settle")
  /\ \E w \in PauseAnswers :
     LET e == WaitFor(w)
         o == [op EXCEPT !.waits = @ + 1, !.i = @ + 1]
     IN op' = CASE e # "" -> EndThrow([o EXCEPT !.waitFaults = @ + 1], e, "wait")
                [] o.i < o.n -> [o EXCEPT !.pc = "check"]
                [] OTHER -> ScrollExhausted(o)
  /\ UNCHANGED <<loc, target>>
  /\ FacadeUnchanged

\* ------------------------------------------------------ extendedWaitUntil

\* Line 2811: the loop ran out of time.
WaitExhausted(o) == EndThrow(o, "condition", "self")

\* Lines 2798-2808: the step an iteration goes to after the check of `visible`
\* (fromVisible), or begins with.
WaitNext(o, fromVisible) ==
  CASE o.visible /\ ~fromVisible -> [o EXCEPT !.pc = "visible", !.shown = FALSE, !.hidden = FALSE]
    [] o.notVisible -> [o EXCEPT !.pc = "notVisible"]
    [] OTHER -> [o EXCEPT !.pc = "pause"]

\* Lines 2799-2800: `visible` seen visible ends the wait.
WaitShown(o, isVisible) ==
  IF isVisible THEN EndOk([o EXCEPT !.shown = TRUE]) ELSE WaitNext(o, TRUE)

\* Lines 2804-2805: `notVisible` seen not visible ends the wait.
WaitHidden(o, isVisible) ==
  IF ~isVisible THEN EndOk([o EXCEPT !.hidden = TRUE]) ELSE [o EXCEPT !.pc = "pause"]

\* extendedWaitUntil({visible, notVisible, timeout}), lines 2793-2797; n is
\* the number of iterations that begin before the timeout has elapsed.  The
\* script passes the handle it holds as `visible` and a handle of its own as
\* `notVisible`.
StartExtendedWaitUntil(v, nv, n) ==
  /\ Idle
  /\ op' = LET o == [IdleOp EXCEPT !.name = "extendedWaitUntil", !.n = n,
                                   !.visible = v, !.notVisible = nv]
           IN IF 0 < n THEN WaitNext(o, FALSE) ELSE WaitExhausted(o)
  /\ target' = MobileLocator(driver, "id", NoStrategies, NoIndex)
  /\ UNCHANGED loc
  /\ FacadeUnchanged

\* Line 2799: isVisible(visible).
WaitCheckVisible ==
  /\ At("extendedWaitUntil", "visible")
  /\ \E r \in VisibleResults(loc) :
     LET o == [op EXCEPT !.checks = @ + 1]
     IN /\ loc' = r.h
        /\ op' = IF r.err # "" THEN EndThrow(o, r.err, "check")
                 ELSE WaitShown(o, r.val)
  /\ UNCHANGED target
  /\ FacadeUnchanged

\* Line 2804: isVisible(notVisible).
WaitCheckNotVisible ==
  /\ At("extendedWaitUntil", "notVisible")
  /\ \E r \in VisibleResults(target) :
     LET o == [op EXCEPT !.checks = @ + 1]
     IN /\ target' = r.h
        /\ op' = IF r.err # "" THEN EndThrow(o, r.err, "check")
                 ELSE WaitHidden(o, r.val)
  /\ UNCHANGED loc
  /\ FacadeUnchanged

\* Line 2808: waitFor(100), then the next iteration or the end of the loop.
WaitPause ==
  /\ At("extendedWaitUntil", "pause")
  /\ \E w \in PauseAnswers :
     LET e == WaitFor(w)
         o == [op EXCEPT !.waits = @ + 1, !.i = @ + 1]
     IN op' = CASE e # "" -> EndThrow([o EXCEPT !.waitFaults = @ + 1], e, "wait")
                [] o.i < o.n -> WaitNext(o, FALSE)
                [] OTHER -> WaitExhausted(o)
  /\ UNCHANGED <<loc, target>>
  /\ FacadeUnchanged

\* The remote side goes away (the automation server or the browser dies):
\* every call made on it from now on faults.
SessionLost ==
  /\ live # {}
  /\ live' = {}
  /\ UNCHANGED <<platform, driver, browser, context, page, launches, closed, envs, other, loc, target, op, last>>

\* The script takes the operation's result; the next operation can start.
Return ==
  /\ op.pc = "done"
  /\ op' = IdleOp
  /\ last' = NoLast
  /\ target' = NoLocator
  /\ UNCHANGED <<platform, driver, browser, context, page, live, launches, closed, envs, other, loc>>

\* ------------------------------------------------------- specifications

\* The session's life and the selector factory: part of every specification.
\* The script asks the factory for an index option among I.
FacadeStepOver(I) ==
  \/ \E f \in {"none", "remote", "browser", "context", "page", "goto"} : Launch(f)
  \/ \E f \in {"none", "session", "page", "context", "browser"} : Close(f)
  \/ \E m \in FactoryMethods, x \in I : Factory(m, x)
  \/ SessionLost
  \/ Return

FacadeStep == FacadeStepOver(Indexes \cup {NoIndex})

\* The index options the scripts of the orchestrator specifications use: none,
\* the second match, the last match.
FewIndexes == {NoIndex, 1, 0 - 1}

ResolveStep == ToMobileElement

ProbeStep ==
  \E name \in Probes : Probe(name)

AssertStep ==
  \/ ToHaveCount
  \/ \E name \in TextAssertions : TextAssertion(name)
  \/ \E name \in WebOnlyOperations : WebOnly(name)
  \/ \E name \in RecordingOperations : Recording(name)

RetryStep ==
  \/ \E n \in 0..MaxAttempts, d \in BOOLEAN : StartTapOnWithRetry(n, d)
  \/ RetryTap
  \/ RetryDelayOk
  \/ RetryDelayRetry

GoneStep ==
  \/ \E n \in 0..MaxAttempts : StartTapOnUntilGone(n)
  \/ GoneCheck
  \/ GoneTap
  \/ GoneTapDelay
  \/ GoneRecheck
  \/ GoneInterval

VisibleStep ==
  \/ \E n \in 0..MaxAttempts : StartTapOnUntilVisible(n)
  \/ VisibleCheck
  \/ VisibleTap
  \/ VisibleTapDelay
  \/ VisibleRecheck
  \/ VisibleInterval

ScrollStep ==
  \/ \E n \in 0..MaxAttempts : StartScrollUntilVisible(n)
  \/ ScrollCheck
  \/ ScrollOnce
  \/ ScrollSettle

EnvStep ==
  \/ \E i \in Instances, k \in Keys, v \in Vals : SetEnv(i, k, v)
  \/ \E i \in Instances, k \in Keys : GetEnv(i, k)

OverlapStep == CallUnawaited \/ UnawaitedSettles

InteractionStep == \E name \in Interactions : Interaction(name)

ExtendedWaitStep ==
  \/ \E v \in BOOLEAN, nv \in BOOLEAN, n \in 0..MaxAttempts : StartExtendedWaitUntil(v, nv, n)
  \/ WaitCheckVisible
  \/ WaitCheckNotVisible
  \/ WaitPause

Next ==
  FacadeStep \/ ResolveStep \/ ProbeStep \/ RetryStep \/ GoneStep \/ VisibleStep
  \/ ScrollStep \/ AssertStep \/ EnvStep \/ OverlapStep \/ ExtendedWaitStep
  \/ InteractionStep \/ Count

\* Every operation of the model.
Spec == Init /\ [][Next]_vars

\* The facade with direct resolutions of the handle.
SpecResolve == Init /\ [][FacadeStep \/ ResolveStep]_vars

\* The facade with tapOnWithRetry.
SpecRetry == Init /\ [][FacadeStepOver(FewIndexes) \/ RetryStep]_vars

\* The facade with tapOnUntilGone.
SpecGone == Init /\ [][FacadeStepOver(FewIndexes) \/ GoneStep]_vars

\* The facade with tapOnUntilVisible.
SpecVisible == Init /\ [][FacadeStepOver(FewIndexes) \/ VisibleStep]_vars

\* A script whose launch and close meet no fault when they are called (the
\* session can still be lost later) and that builds its handles with
\* getByTestId (one strategy) and getByPlaceholder (fallback strategies).
ScriptStep ==
  \/ Launch("none")
  \/ Close("none")
  \/ \E m \in {"getByTestId", "getByPlaceholder"} : Factory(m, NoIndex)
  \/ SessionLost
  \/ Return

\* That script with the two tap-until loops.
SpecTapUntil == Init /\ [][ScriptStep \/ GoneStep \/ VisibleStep]_vars

\* The facade with every operation on a handle that is called on its own:
\* resolution, the probes, tapOn, fill, getText and count.
SpecHandle ==
  Init /\ [][FacadeStepOver(FewIndexes) \/ ResolveStep \/ ProbeStep
             \/ InteractionStep \/ Count]_vars

\* That script with the four orchestrators.
SpecOrchestrators ==
  Init /\ [][ScriptStep \/ RetryStep \/ GoneStep \/ VisibleStep \/ ScrollStep]_vars

\* A step of an orchestrator that is running: the call it awaits returns or
\* faults.
OrchestratorRuns ==
  /\ op.pc \notin {"idle", "done"}
  /\ RetryStep \/ GoneStep \/ VisibleStep \/ ScrollStep

\* A script that launches, closes and builds its handle with getByTestId.
PlainScriptStep ==
  \/ Launch("none")
  \/ Close("none")
  \/ Factory("getByTestId", NoIndex)
  \/ SessionLost
  \/ Return

\* The four orchestrators under that script, when every call they await
\* returns or faults.
LiveOrchestrators ==
  /\ Init
  /\ [][PlainScriptStep \/ RetryStep \/ GoneStep \/ VisibleStep \/ ScrollStep]_vars
  /\ WF_vars(OrchestratorRuns)

\* The facade with scrollUntilVisible.
SpecScroll == Init /\ [][FacadeStepOver(FewIndexes) \/ ScrollStep]_vars

\* The facade with the assertions; its script asks the factory for no index.
SpecAssert == Init /\ [][FacadeStepOver({NoIndex}) \/ AssertStep]_vars

\* Two facade instances, constructed with or without the script's config.env,
\* and their environment maps.
InitEnv == InitFacade /\ envs \in ConstructedEnvs
SpecEnv == InitEnv /\ [][EnvStep \/ Return]_vars

\* The facade with tapOnWithRetry, and a script that does not await every call.
SpecOverlap == Init /\ [][FacadeStepOver({NoIndex}) \/ RetryStep \/ OverlapStep]_vars

\* The facade with tapOn, fill and getText called on their own.
SpecInteraction == Init /\ [][FacadeStepOver(FewIndexes) \/ InteractionStep]_vars

\* The facade with extendedWaitUntil.
SpecWait == Init /\ [][FacadeStepOver(FewIndexes) \/ ExtendedWaitStep]_vars

\* The facade with the boolean probes.
SpecProbe == Init /\ [][FacadeStepOver(FewIndexes) \/ ProbeStep]_vars

\* ----------------------------------------------------------------- claims

\* A direct resolution of the handle has just ended (it passed the
\* initialization check and ran _getElement).
ResolutionDone ==
  op.name = "_toMobileElement" /\ op.pc = "done" /\ op.errSrc # "self"

\* The match set driver.$$ answered the last resolution with, and its size.
MatchSet == last.env.all
MatchCount == Len(last.env.all)

\* An indexed resolution whose match-set query was answered.
IndexedResolutionDone ==
  ResolutionDone /\ last.h.index # NoIndex /\ ~last.env.allFault

\* C1: resolution with positional index i over a match set of size N >= 1
\* returns the element at position i when 0 <= i < N, the element at position
\* N + i when -N <= i <= -1, and fails with the index-out-of-range error,
\* returning no element, for every other i.
C1_IndexedResolution ==
  (IndexedResolutionDone /\ MatchCount >= 1) =>
    LET i == last.h.index
        N == MatchCount
    IN CASE 0 <= i /\ i < N ->
              /\ op.ret = "ok"
              /\ last.res.out = FirstMatch + i
         [] 0 - N <= i /\ i <= 0 - 1 ->
              /\ op.ret = "ok"
              /\ last.res.out = FirstMatch + N + i
         [] OTHER ->
              /\ op.ret = "throw" /\ op.err = "range"
              /\ last.res.out = NoElement

\* C1 witness: five matches, index -1 resolves the element at position 4.
C1_Witness ==
  /\ IndexedResolutionDone
  /\ MatchCount = 5 /\ last.h.index = 0 - 1
  /\ op.ret = "ok" /\ last.res.out = FirstMatch + 4

\* C2: over an empty match set, resolution with any positional index fails
\* with the no-match error, not the index-out-of-range error, and returns no
\* element.
C2_EmptyMatchSet ==
  (IndexedResolutionDone /\ MatchCount = 0) =>
    /\ op.ret = "throw" /\ op.err = "nomatch"
    /\ last.res.out = NoElement

\* C2 witness: an empty match set met with a negative index.
C2_Witness ==
  /\ IndexedResolutionDone /\ MatchCount = 0
  /\ last.h.index < 0
  /\ op.err = "nomatch"

\* The candidate lookups (driver.$ of a fallback strategy) the last resolution
\* made, in order.
CandidateLookups ==
  SelectSeq(last.res.calls, LAMBDA c : c[1] = "$" /\ c[2] # MainElement)

\* The last resolution went through the fallback strategies: the handle has
\* some, has no index, and the cached element was not returned.
FallbackResolutionDone ==
  /\ ResolutionDone
  /\ last.h.index = NoIndex
  /\ Len(last.h.fallbackStrategies) > 0
  /\ ~(last.h.element # NoElement /\ last.h.elementCacheValid /\ last.env.cached = "shown")

\* Candidate k is the first whose lookup yields an element that is displayed.
FirstDisplayed(k) ==
  /\ last.env.cand[last.h.fallbackStrategies[k]] = "shown"
  /\ \A j \in 1..(k - 1) : last.env.cand[last.h.fallbackStrategies[j]] # "shown"

\* C3: resolution through the fallback strategies tries the candidates in
\* listed order; the first candidate whose lookup yields a displayed element
\* wins: its element is returned and cached as valid, and no later candidate
\* (nor the main strategy) is queried; an element is returned for a candidate
\* only if it reported displayed.
C3_FallbackOrder ==
  FallbackResolutionDone =>
    LET fs == last.h.fallbackStrategies
    IN /\ \A k \in 1..Len(fs) :
            FirstDisplayed(k) =>
              /\ op.ret = "ok"
              /\ last.res.out = fs[k]
              /\ loc.element = fs[k] /\ loc.elementCacheValid
              /\ CandidateLookups = [j \in 1..k |-> <<"$", fs[j]>>]
              /\ <<"$", MainElement>> \notin {last.res.calls[c] : c \in DOMAIN last.res.calls}
       /\ \A k \in 1..Len(fs) :
            last.res.out = fs[k] => last.env.cand[fs[k]] = "shown"

\* C3 witness: [A, B, C] with A not displayed, B no element, C displayed
\* returns C's element and marks the cache valid.
C3_Witness ==
  /\ FallbackResolutionDone
  /\ last.env.cand = <<"hidden", "none", "shown">>
  /\ last.res.out = 3
  /\ loc.element = 3 /\ loc.elementCacheValid

\* tapOnWithRetry is running or has just ended.
InRetry == op.name = "tapOnWithRetry"

\* C4: tapOnWithRetry with retries = n >= 1 whose first k-1 tap attempts fail
\* and whose k-th succeeds (1 <= k <= n) makes exactly k tap attempts and
\* returns without an error.  The case is the one in which the waits between
\* the attempts and after the k-th complete.
C4_RetrySucceedsAtK ==
  (InRetry /\ op.firstOk >= 1 /\ op.waitFaults = 0) =>
    /\ op.firstOk <= op.n
    /\ op.taps = op.firstOk
    /\ op.okTaps = 1
    /\ op.pc \in {"delayOk", "done"}
    /\ op.pc = "done" => op.ret = "ok"

\* C4 witness: retries = 3, two faults then a success: returned after exactly
\* three attempts.
C4_Witness ==
  /\ InRetry /\ op.pc = "done"
  /\ op.n = 3 /\ op.firstOk = 3 /\ op.waitFaults = 0
  /\ op.taps = 3 /\ op.ret = "ok"

\* C5: tapOnWithRetry with retries = n >= 1 whose tap attempts all fail makes
\* exactly n attempts, waits the delay after each failed attempt that has
\* attempts remaining (n - 1 waits), and ends by throwing the fault of the
\* n-th attempt.  The case is the one in which those waits complete.
C5_RetryExhausted ==
  (InRetry /\ op.pc = "done" /\ op.n >= 1 /\ op.okTaps = 0 /\ op.waitFaults = 0) =>
    /\ op.taps = op.n
    /\ op.waits = op.n - 1
    /\ op.ret = "throw"
    /\ op.errSrc = "tap" /\ op.errAt = op.n

\* C5 witness: retries = 3 and three failed attempts.
C5_Witness ==
  /\ InRetry /\ op.pc = "done"
  /\ op.n = 3 /\ op.okTaps = 0 /\ op.waitFaults = 0
  /\ op.taps = 3 /\ op.waits = 2
  /\ op.ret = "throw" /\ op.errSrc = "tap" /\ op.errAt = 3

InGone == op.name = "tapOnUntilGone"

\* C6: tapOnUntilGone ends with a normal return at the first visibility check
\* that reports the target not visible, whatever is left of the attempt budget
\* and with no tap after that check (the taps made are those of the iterations
\* before it); and when every check of all maxAttempts iterations reports the
\* target visible it logs a warning and returns normally, it does not throw.
C6_UntilGone ==
  InGone =>
    /\ op.seen =>
         /\ op.pc = "done"
         /\ op.ret = "ok"
         /\ op.i < op.n
         /\ op.taps = op.checks \div 2
    /\ (op.pc = "done" /\ ~op.seen /\ op.checks = 2 * op.n) =>
         /\ op.ret = "ok"
         /\ op.warned
         /\ op.taps = op.n

\* C6 witness: maxAttempts = 3 and the target gone at the check after the
\* first tap, two attempts left.
C6_Witness ==
  /\ InGone /\ op.pc = "done" /\ op.n = 3
  /\ op.seen /\ op.checks = 2 /\ op.taps = 1 /\ op.i = 0 /\ op.ret = "ok"

InUntilVisible == op.name = "tapOnUntilVisible"

\* C7: tapOnUntilVisible ends with a normal return at the first visibility
\* check that reports the target selector visible, before the first tap or
\* after any tap, the last one included; and when no check of the maxAttempts
\* iterations reports it visible it throws the target-not-visible error.
C7_UntilVisible ==
  InUntilVisible =>
    /\ op.seen =>
         /\ op.pc = "done"
         /\ op.ret = "ok"
         /\ op.i < op.n
         /\ op.taps = op.checks \div 2
    /\ (op.pc = "done" /\ ~op.seen /\ op.checks = 2 * op.n) =>
         /\ op.ret = "throw"
         /\ op.err = "target"
         /\ op.taps = op.n

\* C7 witness: maxAttempts = 3 and the target visible only at the check after
\* the last tap.
C7_Witness ==
  /\ InUntilVisible /\ op.pc = "done" /\ op.n = 3
  /\ op.seen /\ op.checks = 6 /\ op.taps = 3 /\ op.ret = "ok"

InScroll == op.name = "scrollUntilVisible"

\* C8: scrollUntilVisible scrolls at most maxScrolls times; once a visibility
\* check reports the target visible it returns with no scroll after that
\* check; and with the target visible at the first check it scrolls zero
\* times.
C8_ScrollUntilVisible ==
  InScroll =>
    /\ op.scrolls <= op.n
    /\ op.seen =>
         /\ op.pc = "done"
         /\ op.ret = "ok"
         /\ op.scrolls = op.checks - 1
    /\ (op.seen /\ op.checks = 1) => op.scrolls = 0

\* C8 witness: maxScrolls = 3 and the target visible at the third check, after
\* two scrolls.
C8_Witness ==
  /\ InScroll /\ op.pc = "done" /\ op.n = 3
  /\ op.seen /\ op.checks = 3 /\ op.scrolls = 2 /\ op.ret = "ok"

InProbe == op.name \in Probes /\ op.pc = "done"

\* C9: the boolean probes isVisible, isEnabled, isHidden and isDisabled never
\* throw: in every facade state and under every fault the probe returns a
\* boolean.
C9_ProbesNeverThrow == InProbe => op.ret = "ok"

\* What isVisible is to report for the outcome a probe met: true exactly when
\* the facade is initialized, the handle resolved and the element answered
\* displayed; every fault is a false.
VisibleOutcome ==
  /\ EnsureInitialized
  /\ IsMobile => op.resolved
  /\ op.q = "true"

\* C10: isHidden(x) is the logical negation of what isVisible(x) yields for
\* the same resolution outcome, fault cases included: a fault makes isVisible
\* false and isHidden true.
C10_HiddenNegatesVisible ==
  (InProbe /\ op.name = "isHidden") =>
    /\ op.ret = "ok"
    /\ op.val = ~VisibleOutcome

\* A selector-factory call has ended.
FactoryDone == op.name \in FactoryMethods /\ op.pc = "done"

\* C11: every selector-factory method called on a facade before launch fails
\* fast with the initialization error.
C11_FailsFastBeforeLaunch ==
  (FactoryDone /\ launches = 0) => (op.ret = "throw" /\ op.err = "init")

\* launch has created the facade's session: the field _ensureInitialized
\* tests has been assigned.
Launched == IF IsMobile THEN driver # 0 ELSE page # 0

\* C12: after close has completed on a launched facade, every selector method
\* called on it fails fast with the initialization error.
C12_FailsFastAfterClose ==
  (FactoryDone /\ closed /\ Launched) => (op.ret = "throw" /\ op.err = "init")

\* The remote sessions alive that launch calls of this facade created: mobile
\* sessions and browsers (a browser owns its contexts and pages).
LiveSessions == {r \in live : r[1] \in {"session", "browser"}}

\* C13: after any sequence of launch and close calls on one facade, at most
\* one remote session created by it is alive.
C13_AtMostOneSession == Cardinality(LiveSessions) <= 1

\* toHaveCount has ended and count(selector) gave it a count.
CountObserved == op.name = "toHaveCount" /\ op.pc = "done" /\ op.errSrc # "count"

\* The parts of the expectation the observed count violates.
CountViolations ==
  {k \in {"exact"} : op.exact # Undefined /\ op.got # op.exact}
  \cup {k \in {"min"} : op.min # Undefined /\ op.got < op.min}
  \cup {k \in {"max"} : op.max # Undefined /\ op.got > op.max}

\* C14: toHaveCount throws exactly when the observed count violates the
\* expectation (exact: it differs; min: it is below; max: it is above), the
\* error then names a violated bound with its value; otherwise it returns the
\* facade.  A plain number n is the expectation {exact: n}.
C14_ToHaveCount ==
  CountObserved =>
    /\ (op.ret = "throw") <=> (CountViolations # {})
    /\ (op.ret = "ok") <=> (CountViolations = {})
    /\ op.ret = "throw" =>
         /\ op.err \in CountViolations
         /\ op.bound = (CASE op.err = "exact" -> op.exact
                          [] op.err = "min" -> op.min
                          [] OTHER -> op.max)
    /\ op.plain => (op.ret = "ok" <=> op.got = op.exact)

\* C14 witness: {min: 3, max: ...} with two matches throws with "min count 3".
C14_Witness ==
  /\ CountObserved /\ ~op.plain /\ op.exact = Undefined
  /\ op.min = 3 /\ op.max # Undefined /\ op.max >= 3 /\ op.got = 2
  /\ op.ret = "throw" /\ op.err = "min" /\ op.bound = 3

\* A text assertion on mobile has ended, and the value was read.
TextObserved ==
  /\ op.name \in TextAssertions /\ op.pc = "done" /\ IsMobile
  /\ op.errSrc \notin {"resolve", "read"} /\ op.err # "init"

\* C15: on mobile, toHaveText, toContainText and toHaveValue read the observed
\* value exactly once and compare it once: a match on that read returns, a
\* mismatch throws at once with a message that states the expected and the
\* observed value.  No assertion on mobile reads more than once.
C15_OneShotAssertion ==
  /\ (op.name \in TextAssertions /\ IsMobile) => op.reads <= 1
  /\ TextObserved =>
       /\ op.reads = 1
       /\ IF (IF op.name = "toContainText" THEN Includes(op.observed, op.expected)
              ELSE op.observed = op.expected)
            THEN op.ret = "ok"
            ELSE /\ op.ret = "throw"
                 /\ op.err = "mismatch"
                 /\ op.said = <<op.expected, op.observed>>

\* C15 witness: toContainText "b" on an element whose text is "a" throws.
C15_Witness ==
  /\ TextObserved /\ op.name = "toContainText"
  /\ op.expected = <<"b">> /\ op.observed = <<"a">> /\ op.reads = 1
  /\ op.ret = "throw" /\ op.said = <<<<"b">>, <<"a">>>>

\* C16: toHaveURL, toHaveTitle, openLink and forward on android / ios log a
\* warning, make no call on the remote session, do not throw, and return the
\* facade they were called on.
C16_UnsupportedIsNoOp ==
  (op.name \in WebOnlyOperations /\ op.pc = "done" /\ IsMobile) =>
    /\ op.warned
    /\ op.remote = 0
    /\ op.ret = "ok"
    /\ op.yields = "this"

\* C16 witness: forward on a launched ios facade.
C16_Witness ==
  /\ op.name = "forward" /\ op.pc = "done" /\ platform = "ios" /\ Launched
  /\ ~closed /\ op.ret = "ok" /\ op.warned /\ op.remote = 0

\* The actions of the facade: every operation of the model but launch, the
\* selector factory, the boolean probes and the internal resolution.
Actions ==
  {"close", "tapOnWithRetry", "tapOnUntilGone", "tapOnUntilVisible",
   "scrollUntilVisible", "toHaveCount", "startRecording", "stopRecording"}
  \cup TextAssertions \cup WebOnlyOperations

\* C17: every mutating action of the facade that completes without an error
\* yields the facade instance it was called on.
C17_ActionsYieldFacade ==
  (op.name \in Actions /\ op.pc = "done" /\ op.ret = "ok") => op.yields = "this"

\* C18: the environment map of an instance is changed only by its setEnv:
\* after setEnv(k, v) on an instance, getEnv(k) on it returns v until its next
\* setEnv(k, ...), whatever is called on another instance in between.
C18_EnvScopedToInstance ==
  (op.name = "getEnv" /\ op.pc = "done" /\ envs.set[op.inst][op.key] # Undefined) =>
    op.value = envs.set[op.inst][op.key]

\* The operation the script awaits is between its start and its completion.
InFlight == op.pc \notin {"idle", "done"}

\* C19: at any moment at most one operation of a facade instance is between
\* its start and its completion.
C19_OneOperationAtATime == ~(InFlight /\ other.name # "idle")

\* extendedWaitUntil was called with both options and returned.
WaitedForBoth ==
  /\ op.name = "extendedWaitUntil" /\ op.pc = "done" /\ op.ret = "ok"
  /\ op.visible /\ op.notVisible

\* C20: extendedWaitUntil called with both a `visible` and a `notVisible`
\* selector returns only when it has seen the `visible` element visible and
\* the `notVisible` element not visible; otherwise it ends in a throw.
C20_BothConditionsMet == WaitedForBoth => (op.shown /\ op.hidden)

\* tapOn, fill or getText has failed on a launched facade.
InteractionFailed ==
  /\ op.name \in Interactions /\ op.pc = "done" /\ op.ret = "throw"
  /\ op.err # "init"

\* C21: a non-probe operation that fails throws to the caller an error whose
\* message has the selector description attached.
C21_FaultCarriesSelector == InteractionFailed => op.context

\* A probe has ended after catching a fault it did not throw again.
ProbeSwallowed == op.name \in Probes /\ op.pc = "done" /\ op.caught > 0

\* C22: a fault that a probe, the fallback-candidate lookup or the cache
\* revalidation catches and does not raise again is accompanied by at least
\* one log entry.
C22_NoSilentSwallow == ProbeSwallowed => Len(op.logs) >= 1

\* A selector-factory call on a mobile facade has produced a handle; op.n is
\* the index option it was called with (NoIndex: none).
HandleBuilt == FactoryDone /\ IsMobile /\ op.ret = "ok"

\* C23 as stated: every selector-factory method attaches the index option it
\* is passed to the handle, and a handle built with no option has no index.
C23_IndexAttached == HandleBuilt => loc.index = op.n

\* C23: getByText and getByRole attach the index option they are passed
\* unchanged, 0 and negative values included, and no index when they are
\* passed none; the other factory methods take no index option and produce a
\* handle without index whatever they are passed.
C23_IndexAttachedByText ==
  HandleBuilt =>
    loc.index = IF op.name \in {"getByText", "getByRole"} THEN op.n ELSE NoIndex

\* C23 witness: getByRole passed index 0 and getByText passed a negative index.
C23_Witness ==
  /\ HandleBuilt
  /\ \/ op.name = "getByRole" /\ op.n = 0 /\ loc.index = 0
     \/ op.name = "getByText" /\ op.n = 0 - 2 /\ loc.index = 0 - 2

\* The last resolution began with the check of a valid cached element.
RevalidationDone == ResolutionDone /\ CachePath(last.h)

\* C24: a resolution of a handle without index whose cache is valid checks
\* first that the cached element reports displayed; if it does, the cached
\* element is returned and no lookup is made; if the check faults or reports
\* not displayed, the cache is invalidated and a fresh resolution is made, so
\* that a fresh resolution that fails leaves the handle with no valid cache.
C24_CacheRevalidation ==
  RevalidationDone =>
    /\ last.res.calls[1] = <<"isDisplayed", last.h.element>>
    /\ IF last.env.cached = "shown"
         THEN /\ last.res.out = last.h.element
              /\ Len(last.res.calls) = 1
              /\ last.res.h = last.h
         ELSE /\ Len(last.res.calls) > 1
              /\ last.res.err # "" => ~last.res.h.elementCacheValid

\* The last resolution was of a handle with a positional index.
IndexedDone == ResolutionDone /\ last.h.index # NoIndex

\* C25: every resolution of a handle with a positional index makes one new
\* query of the match set and nothing else, whatever the handle holds from
\* earlier resolutions: the element it returns is one of the match set as it
\* is now, and the outcome is that of a handle that was never resolved.
C25_IndexedRequeries ==
  IndexedDone =>
    /\ last.res.calls = <<<<"$$", 0>>>>
    /\ last.res.err = "" =>
         \E p \in 1..Len(last.env.all) : last.res.out = last.env.all[p]
    /\ LET first == GetElement(InvalidateCache(last.h), last.env)
       IN last.res.out = first.out /\ last.res.err = first.err

\* C25 witness: a handle with index -1 that holds the element of an earlier
\* resolution returns another element once the match set has become smaller.
C25_Witness ==
  /\ IndexedDone /\ last.h.index = 0 - 1
  /\ last.h.element # NoElement /\ last.h.elementCacheValid
  /\ last.res.err = ""
  /\ last.res.out < last.h.element

\* C26 as stated: a successful resolution of a handle with a positional index
\* leaves the handle's cached element and cache-valid flag as they were.
C26_IndexedLeavesCache ==
  (IndexedDone /\ last.res.err = "") =>
    /\ last.res.h.element = last.h.element
    /\ last.res.h.elementCacheValid = last.h.elementCacheValid

\* C26: a successful resolution of a handle with a positional index stores
\* the element it returns in the handle and marks it valid, changing nothing
\* else of the handle; a failed one leaves the handle as it was; and neither
\* reads what an earlier resolution stored.
C26_IndexedStoresUnread ==
  IndexedDone =>
    /\ IF last.res.err = ""
         THEN last.res.h = [last.h EXCEPT !.element = last.res.out,
                                          !.elementCacheValid = TRUE]
         ELSE last.res.h = last.h
    /\ \A k \in 1..Len(last.res.calls) : last.res.calls[k][1] # "isDisplayed"

\* C26 witness: the first resolution of a handle with index 1 over two
\* matches leaves the second match stored as valid.
C26_Witness ==
  /\ IndexedDone /\ last.h.index = 1 /\ Len(last.env.all) = 2
  /\ last.h.element = NoElement /\ ~last.h.elementCacheValid
  /\ last.res.h.element = FirstMatch + 1 /\ last.res.h.elementCacheValid

\* Every fallback candidate of the last resolution failed.
AllCandidatesFailed ==
  /\ FallbackResolutionDone
  /\ \A k \in 1..Len(last.h.fallbackStrategies) :
       last.env.cand[last.h.fallbackStrategies[k]] # "shown"

\* C27: when every fallback candidate fails, each has been queried and the
\* resolution ends with the lookup of the main strategy; the element that
\* lookup yields is returned and stored in the handle as valid.
C27_LastResort ==
  AllCandidatesFailed =>
    /\ Len(CandidateLookups) = Len(last.h.fallbackStrategies)
    /\ last.res.calls[Len(last.res.calls)] = <<"$", MainElement>>
    /\ ~last.env.mainFault =>
         /\ op.ret = "ok"
         /\ last.res.out = MainElement
         /\ last.res.h.element = MainElement
         /\ last.res.h.elementCacheValid

\* C27 witness: the candidates yield no element, an element that is not
\* displayed and a lookup fault; the main strategy's element is returned.
C27_Witness ==
  /\ AllCandidatesFailed
  /\ last.env.cand = <<"none", "hidden", "lookupFault">>
  /\ last.res.out = MainElement /\ last.res.h.elementCacheValid

\* The last resolution went past the cache check to a lookup.
LookupDone ==
  ResolutionDone /\ ~(CachePath(last.h) /\ last.env.cached = "shown")

\* The resolution paths the last resolution's remote calls belong to: the
\* match-set query, the candidate lookups, the main strategy's lookup.
PathsTaken ==
  {"index" : k \in {j \in 1..Len(last.res.calls) : last.res.calls[j][1] = "$$"}}
  \cup {"fallback" : k \in {j \in 1..Len(CandidateLookups) : TRUE}}
  \cup {"single" : k \in {j \in 1..Len(last.res.calls) :
                            last.res.calls[j] = <<"$", MainElement>>}}

\* The path the handle's fields select, in priority order.
PathSelected ==
  IF last.h.index # NoIndex THEN "index"
  ELSE IF Len(last.h.fallbackStrategies) > 0 THEN "fallback"
  ELSE "single"

\* C28 as stated: exactly one of the three paths is taken per resolution.
C28_ExactlyOnePath == LookupDone => PathsTaken = {PathSelected}

\* C28: a resolution takes the path its handle selects (index, else fallback
\* strategies, else the single strategy) and no other, except that a handle
\* with fallback strategies whose candidates all failed goes on to the
\* single-strategy lookup in the same resolution.
C28_OnePathOrLastResort ==
  LookupDone =>
    PathsTaken = {PathSelected} \cup (IF AllCandidatesFailed THEN {"single"} ELSE {})

\* C28 witness: a handle with fallback strategies whose second candidate is
\* displayed took the fallback path alone.
C28_Witness ==
  /\ LookupDone /\ Len(last.h.fallbackStrategies) > 0
  /\ last.env.cand[1] = "hidden" /\ last.env.cand[2] = "shown"
  /\ PathsTaken = {"fallback"}

\* The last resolution threw the fault of a remote lookup call as it was.
LookupFaultThrown == LookupDone /\ op.ret = "throw" /\ op.err = "remote"

\* C29: the fault of a remote lookup call is thrown to the caller only by the
\* single-strategy lookup of a handle with no index and no fallback
\* strategies; in the match-set query, a candidate lookup and the last resort
\* after the candidates it counts as a failed attempt.
C29_FaultFatalOnlyOnPrimary == LookupFaultThrown => PathSelected = "single"

\* The last resolution looked up a handle with no index and no fallback
\* strategies.
SingleLookupDone == LookupDone /\ PathSelected = "single"

\* The remote calls of the last resolution that follow the cache check.
LookupCalls ==
  IF CachePath(last.h) THEN Tail(last.res.calls) ELSE last.res.calls

\* C30: on the single-strategy path the resolution makes one single-element
\* lookup and no displayed check on the element it yields; that element is
\* returned and stored in the handle as valid.
C30_SingleLookupCaches ==
  SingleLookupDone =>
    /\ LookupCalls = <<<<"$", MainElement>>>>
    /\ ~last.env.mainFault =>
         /\ op.ret = "ok"
         /\ last.res.out = MainElement
         /\ last.res.h.element = MainElement
         /\ last.res.h.elementCacheValid

\* C30 witness: the first resolution of a handle built by getByTestId.
C30_Witness ==
  /\ SingleLookupDone /\ last.h.type = "accessibility"
  /\ last.h.element = NoElement
  /\ last.res.out = MainElement /\ last.res.h.elementCacheValid

\* tapOnUntilGone or tapOnUntilVisible is running or has ended.
InTapUntil == op.name \in {"tapOnUntilGone", "tapOnUntilVisible"}

\* C31: in the two tap-until loops the fault of a tap is never thrown to the
\* caller and never ends the loop: every tap, failed or not, is followed by
\* the delay, and a loop that did not end in a fault of a delay ended at a
\* visibility check made after its last tap.
C31_FailedTapIgnored ==
  InTapUntil =>
    /\ op.errSrc # "tap"
    /\ op.pc = "tapDelay" => op.taps = op.i + 1
    /\ (op.pc = "done" /\ op.errSrc # "wait") => op.checks >= 2 * op.taps

\* C31 witness: tapOnUntilGone whose two taps both failed returned at the
\* check that found the element gone.
C31_Witness ==
  /\ op.name = "tapOnUntilGone" /\ op.pc = "done" /\ op.ret = "ok"
  /\ op.taps = 2 /\ op.okTaps = 0 /\ op.seen

\* The four orchestrators, and one of them running or ended.
Orchestrators ==
  {"tapOnWithRetry", "tapOnUntilGone", "tapOnUntilVisible", "scrollUntilVisible"}
InOrchestrator == op.name \in Orchestrators

\* C32: an orchestrator invoked on a facade that has no session ends with the
\* initialization error after at most one tap attempt, with no scroll, no
\* completed delay and its loop counter still at 0.
C32_InitErrorNotRetried ==
  (InOrchestrator /\ ~EnsureInitialized) =>
    /\ op.taps <= 1 /\ op.scrolls = 0
    /\ op.waits = op.waitFaults
    /\ op.i = 0
    /\ op.pc = "done" => (op.ret = "throw" /\ op.err = "init")

\* The fields of a handle that the constructor sets and nothing else is to
\* change.
Constructed(h) ==
  [driver |-> h.driver, type |-> h.type,
   fallbackStrategies |-> h.fallbackStrategies, index |-> h.index]

\* The step is a selector-factory call: the script holds a new handle.
FactoryCalled == op.name = "idle" /\ op'.name \in FactoryMethods

\* C33: no operation on a handle and no facade operation changes the
\* handle's strategy, fallback strategies or positional index: only its
\* cached element and cache-valid flag change; count() changes nothing of it.
C33_OnlyCacheChanges ==
  [][/\ ~FactoryCalled => Constructed(loc') = Constructed(loc)
     /\ (op.name = "idle" /\ op'.name = "count") => loc' = loc]_vars

\* C33 witness: a handle with index -1 has been resolved and then counted;
\* it holds an element, marked valid, and its index is still -1.
C33_Witness ==
  /\ op.name = "count" /\ op.pc = "done" /\ op.got = 2
  /\ loc.index = 0 - 1 /\ loc.elementCacheValid /\ loc.element = FirstMatch + 1

\* C34: every orchestrator ends, in a return or a throw, when each call it
\* awaits returns or faults; it runs at most as many iterations as its bound
\* (retries, maxAttempts, maxScrolls) and issues at most that many taps or
\* scrolls, for every bound from 0 on.
C34_OrchestratorsTerminate ==
  /\ [](InOrchestrator =>
          /\ op.i <= op.n
          /\ op.taps <= op.n
          /\ op.scrolls <= op.n)
  /\ InOrchestrator ~> (op.pc = "done")

\* C34 witness: scrollUntilVisible with maxScrolls = 3 ended in the exhausted
\* bound after three scrolls.
C34_Witness ==
  /\ op.name = "scrollUntilVisible" /\ op.pc = "done"
  /\ op.n = 3 /\ op.scrolls = 3 /\ op.err = "scrolls"

\* C35: tapOnWithRetry returns normally only if some tap attempt succeeded:
\* for every value of the retries option, 0 included, a normal return implies
\* that at least one tap was issued and completed without a fault.
C35_ReturnImpliesTap ==
  (InRetry /\ op.pc = "done" /\ op.ret = "ok") => op.okTaps >= 1

\* The same statement for retries >= 1 only.
C35_ReturnImpliesTapPositive ==
  (InRetry /\ op.pc = "done" /\ op.ret = "ok" /\ op.n >= 1) => op.okTaps >= 1

\* C36: in tapOnWithRetry, once a tap attempt has succeeded no further tap is
\* issued on the target, whatever the outcome of the wait that follows the
\* successful tap: the attempts made are those up to the first success.
C36_NoTapAfterSuccess ==
  (InRetry /\ op.firstOk >= 1) => op.taps = op.firstOk

\* C37: scrollUntilVisible throws its bound-exhausted error only if the target
\* was observed not visible after the last scroll performed: every scroll is
\* followed by a visibility check before the call gives up, so a target that
\* becomes visible after the k-th scroll, k <= maxScrolls, is found.
C37_CheckedAfterLastScroll ==
  (op.name = "scrollUntilVisible" /\ op.pc = "done" /\ op.err = "scrolls"
     /\ op.scrolls >= 1)
    => op.checks > op.scrolls

\* C38: cache consistency of a handle without index: whenever cacheValid is
\* true the cached element is the element returned by the most recent
\* resolution that returned.  A resolution that returns leaves the element it
\* returned marked valid; a resolution that ends in a fault either leaves the
\* cache not valid or leaves the valid element it found untouched, never a
\* fallback candidate that was not returned.
C38_CacheConsistent ==
  (ResolutionDone /\ last.h.index = NoIndex) =>
    /\ last.res.err = "" =>
         /\ last.res.h.elementCacheValid
         /\ last.res.h.element = last.res.out
    /\ (last.res.err # "" /\ last.res.h.elementCacheValid) =>
         /\ last.h.elementCacheValid
         /\ last.res.h.element = last.h.element

\* The same statement for handles without fallback strategies only.
C38_CacheConsistentSingle ==
  (ResolutionDone /\ last.h.index = NoIndex
     /\ last.h.fallbackStrategies = NoStrategies) => C38_CacheConsistent

\* The launch that has just ended threw.
LaunchFailed == op.name = "launch" /\ op.pc = "done" /\ op.ret = "throw"

\* The sessions (browser, context, page, device session) that the launch
\* that has just ended created and that are still open.
LeftOpen == {s \in live : s[2] = launches}

\* C39: a launch that throws leaves the facade uninitialized: after it the
\* initialization check still fails, and no session created during the
\* failed launch stays referenced or open.
C39_FailedLaunchUninitialized ==
  LaunchFailed =>
    /\ ~EnsureInitialized
    /\ LeftOpen = {}
    /\ launches \notin {driver, browser, context, page}

\* The same statement for the first launch on a mobile platform only.
C39_FailedFirstMobileLaunch ==
  (LaunchFailed /\ IsMobile /\ launches = 1) =>
    /\ ~EnsureInitialized
    /\ LeftOpen = {}
    /\ launches \notin {driver, browser, context, page}

\* close() has ended.
CloseDone == op.name = "close" /\ op.pc = "done"

\* C40: close never throws and always releases everything it owns: in every
\* facade state it returns normally, and on the web platform a fault while
\* closing the page does not prevent the context and the browser from being
\* closed.
C40_CloseReleasesAll ==
  CloseDone =>
    /\ op.ret = "ok"
    /\ (~IsMobile /\ op.errSrc = "page") =>
         /\ <<"context", context>> \notin live
         /\ <<"browser", browser>> \notin live

\* The first half alone: close returns normally in every facade state, and
\* when no release faults nothing the facade refers to stays open.
C40_CloseReturns ==
  CloseDone =>
    /\ op.ret = "ok"
    /\ op.errSrc = "" =>
         live \cap {<<"session", driver>>, <<"page", page>>,
                    <<"context", context>>, <<"browser", browser>>} = {}

====
